---- MODULE Spec2Model ----
(***************************************************************************)
(* Model of the explorer service: the process-wide WebExplorer             *)
(* (explorer.py), its PageStateMachine (state_machine.py) and the control  *)
(* surface start / pause / resume / stop (main.py).                        *)
(*                                                                         *)
(* One step of the model is one run of a coroutine between two suspension  *)
(* points (asyncio runs a task without interruption until it awaits        *)
(* something that really suspends).  The suspension points of explore()    *)
(* are: initialize() when no browser exists yet, page.goto, asyncio.sleep  *)
(* and page.content, and the page.content inside PageCrawler.analyze_page. *)
(***************************************************************************)
EXTENDS Integers, Sequences, FiniteSets, TLC

\* ------------------------------------------------------------------ bounds
\* the number of explore() coroutines (one per start request, one per
\* successful resume request)
MaxTasks == 2

\* WebExplorer(max_depth, max_pages): the depth limit (the default) and the
\* page budget of the explorer instance and of its PageStateMachine
max_depth == 3
max_pages == 1

\* CaseDeduplicator(similarity_threshold = 0.7): the default, in tenths
default_similarity_threshold == 7

\* ------------------------------------------------------------ the web site
NULL == "None"

URLs == {"/", "/blank", "/about"}

\* the document a freshly created browser page shows
AboutBlank == "about:blank"

\* a page with a login form and three links, which nothing links to
LoginURL == "/login"

Documents == URLs \cup {LoginURL, AboutBlank}

\* what page.content() returns for the document the browser page shows
PageContent(doc) ==
  CASE doc = "/"       -> "<a href=/about>"
    [] doc = "/blank"  -> ""
    [] doc = "/about"  -> "About"
    [] doc = LoginURL  -> "<form login><a 1><a 2><a 3>"
    [] OTHER           -> "<html></html>"

\* hashlib.md5(content).hexdigest()[:16]
MD5_16(content) ==
  CASE content = ""                -> "d41d8cd98f00b204"
    [] content = "<a href=/about>" -> "f4bf9c537e815a66"
    [] content = "About"           -> "558a8a7ab5511223"
    [] content = "<form login><a 1><a 2><a 3>" -> "d0497f4937b410a9"
    [] OTHER                       -> "086707e4369f60af"

\* PageCrawler.crawl_links: the internal links found in a content
CrawlLinks(content) ==
  IF content = "<a href=/about>" THEN << "/about" >>
  ELSE IF content = "<form login><a 1><a 2><a 3>"
  THEN << "/about", "/blank", "/help" >>
  ELSE << >>

\* PageCrawler.crawl_forms: the forms found in a content, each with its
\* action, fields and submit button
CrawlForms(content) ==
  IF content = "<form login><a 1><a 2><a 3>"
  THEN << [action |-> LoginURL,
           fields |-> << [type |-> "text", name |-> "username",
                          selector |-> "#username"],
                         [type |-> "password", name |-> "password",
                          selector |-> "#password"] >>,
           submit_button |-> "button" ] >>
  ELSE << >>

\* ---------------------------------------------------------------- links
\* A string that the code looks into is a sequence of characters; the text
\* of a URL is the sequence of its parts: a scheme with its colon, "//"
\* with the host, the pieces of the path, a fragment with its "#".

Front(q) == SubSeq(q, 1, Len(q) - 1)

\* dict.get(key, default)
Get(dict, key, default) == IF key \in DOMAIN dict THEN dict[key] ELSE default

\* str.startswith(prefix), str.endswith(suffix) and `sub in str`
StartsWith(str, prefix) ==
  Len(str) >= Len(prefix) /\ SubSeq(str, 1, Len(prefix)) = prefix
EndsWith(str, suffix) ==
  Len(str) >= Len(suffix)
    /\ SubSeq(str, Len(str) + 1 - Len(suffix), Len(str)) = suffix
Contains(str, sub) ==
  \E i \in 1..(Len(str) + 1 - Len(sub)) : SubSeq(str, i, i + Len(sub) - 1) = sub

\* str.lower(), part by part
Lower(str) ==
  [i \in 1..Len(str) |-> CASE str[i] = "A" -> "a" [] str[i] = "B" -> "b"
                           [] str[i] = "JavaScript:" -> "javascript:"
                           [] str[i] = "/Logout" -> "/logout"
                           [] OTHER -> str[i]]

\* the parts a URL text can start with as its scheme, the hosts and the
\* fragments
SchemeParts ==
  {"http:", "https:", "javascript:", "JavaScript:", "mailto:", "tel:",
   "sms:", "ftp:", "data:", "file:"}
HostParts == {"//site", "//other"}
FragmentParts == {"#top"}

\* urllib.parse.urlparse: scheme (in lower case), netloc, path, fragment
urlparse(url) ==
  LET has_scheme == Len(url) > 0 /\ url[1] \in SchemeParts
      r1 == IF has_scheme THEN Tail(url) ELSE url
      has_netloc == Len(r1) > 0 /\ r1[1] \in HostParts
      r2 == IF has_netloc THEN Tail(r1) ELSE r1
      has_fragment == Len(r2) > 0 /\ r2[Len(r2)] \in FragmentParts
  IN [scheme |-> IF has_scheme THEN Lower(<< url[1] >>) ELSE << >>,
      netloc |-> IF has_netloc THEN << r1[1] >> ELSE << >>,
      path |-> IF has_fragment THEN Front(r2) ELSE r2,
      fragment |-> IF has_fragment THEN << r2[Len(r2)] >> ELSE << >>]

\* urllib.parse.urljoin, for a URL that has a scheme, has a host, has an
\* absolute path or is a fragment only
urljoin(base, url) ==
  LET b == urlparse(base)
      u == urlparse(url)
  IN IF url = << >> THEN base
     ELSE IF u.scheme # << >> THEN url
     ELSE IF u.netloc # << >> THEN b.scheme \o url
     ELSE IF u.path # << >> THEN b.scheme \o b.netloc \o url
     ELSE b.scheme \o b.netloc \o b.path \o u.fragment

\* normalize_url without the test of the scheme
normalize_url_AnyScheme(base_url, url) ==
  IF \E f \in FragmentParts : StartsWith(url, << f >>) THEN << >>
  ELSE IF StartsWith(Lower(url), << "javascript:" >>) THEN << >>
  ELSE IF \E sch \in {"mailto:", "tel:", "sms:", "ftp:"} :
            StartsWith(Lower(url), << sch >>)
  THEN << >>
  ELSE LET parsed == urlparse(urljoin(base_url, url))
       IN parsed.scheme \o parsed.netloc \o parsed.path

\* PageCrawler.normalize_url: the clean URL, or the empty text for None
\* (crawl_links tests the result for truth only)
normalize_url(base_url, url) ==
  IF \E f \in FragmentParts : StartsWith(url, << f >>) THEN << >>
  ELSE IF StartsWith(Lower(url), << "javascript:" >>) THEN << >>
  ELSE IF \E sch \in {"mailto:", "tel:", "sms:", "ftp:"} :
            StartsWith(Lower(url), << sch >>)
  THEN << >>
  ELSE LET parsed == urlparse(urljoin(base_url, url))
       IN IF parsed.scheme \notin {<< "http:" >>, << "https:" >>} THEN << >>
          ELSE parsed.scheme \o parsed.netloc \o parsed.path

\* PageCrawler.should_ignore_url
should_ignore_url(url) ==
  \/ \E ext \in {".pdf", ".doc", ".docx", ".xls", ".xlsx", ".ppt", ".pptx",
                 ".zip", ".rar", ".tar", ".gz"} : EndsWith(Lower(url), << ext >>)
  \/ \E f \in FragmentParts : Contains(url, << f >>)
  \/ \E sch \in {"javascript:", "mailto:", "tel:"} : StartsWith(Lower(url), << sch >>)
  \/ Contains(Lower(url), << "/logout" >>)
  \/ Contains(Lower(url), << "/signout" >>)

\* PageCrawler.is_internal_link
is_internal_link(base_url, url) ==
  urlparse(url).netloc = << >> \/ urlparse(url).netloc = urlparse(base_url).netloc

\* PageCrawler.crawl_links on the href of each anchor of a page, in order:
\* the LinkInfo of the internal links that are kept (their url)
RECURSIVE crawl_links(_, _)
crawl_links(base_url, hrefs) ==
  IF Len(hrefs) = 0 THEN << >>
  ELSE LET normalized == normalize_url(base_url, hrefs[Len(hrefs)])
           rest == crawl_links(base_url, Front(hrefs))
       IN IF /\ normalized # << >>
             /\ ~should_ignore_url(normalized)
             /\ is_internal_link(base_url, normalized)
          THEN Append(rest, [url |-> normalized])
          ELSE rest

\* NavigationPlanner.should_explore_link
should_explore_link(link_info) ==
  LET url == Lower(Get(link_info, "url", << >>))
  IN /\ \A scheme \in {"javascript:", "mailto:", "tel:", "ftp:", "data:"} :
          ~StartsWith(url, << scheme >>)
     /\ \A path \in {"/logout", "/signout", "/logout.php", "/api/", "/ajax/", "/ajax"} :
          ~Contains(url, << path >>)
     /\ \A ext \in {".pdf", ".doc", ".docx", ".xls", ".xlsx", ".zip", ".rar"} :
          ~EndsWith(url, << ext >>)

\* the text of a URL of the site
UrlText(url) == << "http:", "//site", url >>

\* ------------------------------------------------------------------- state
VARIABLES
  browser,               \* WebExplorer.browser is set
  page,                  \* WebExplorer.page is set
  shown,                 \* the document loaded in WebExplorer.page
  pages,                 \* PageStateMachine.pages: a map URL -> PageState
  visited_urls,          \* PageStateMachine.visited_urls
  visited_fingerprints,  \* PageStateMachine.visited_fingerprints
  exploration_queue,     \* PageStateMachine.exploration_queue
  sm_max_pages,          \* PageStateMachine.max_pages
  similarity_threshold,  \* CaseDeduplicator.similarity_threshold, in tenths
  args,                  \* the arguments of the last call of the case pipeline
  result,                \* what the last call of the case pipeline returned
  sessions,              \* WebExplorer.sessions, in creation order
  tasks,                 \* the explore() coroutines, in creation order
  last,                  \* history: the step taken last
  hist                   \* history: the control calls made so far

vars == << browser, page, shown, pages, visited_urls, visited_fingerprints,
           exploration_queue, sm_max_pages,
           similarity_threshold, args, result, sessions, tasks,
           last, hist >>

SIDs == 1..Len(sessions)
TIDs == 1..Len(tasks)

\* PageState.__init__
PageState(url, depth, parent_url) ==
  [url |-> url, depth |-> depth, parent_url |-> parent_url,
   visited |-> FALSE, dom_fingerprint |-> NULL, links_found |-> << >>,
   forms_found |-> << >>]

\* ExploreSession as built by WebExplorer.create_session
ExploreSession(start_url) ==
  [start_url |-> start_url, status |-> "pending", end_time |-> FALSE,
   pages_explored |-> 0, error |-> NULL]

\* PageState.set_dom_fingerprint
set_dom_fingerprint(ps, dom_content) ==
  [ps EXCEPT !.dom_fingerprint = MD5_16(dom_content)]

\* add_page storing a new record whether or not the URL is known
add_page_Overwrite(pgs, url, depth, parent_url) ==
  [u \in DOMAIN pgs \cup {url} |->
     IF u = url THEN PageState(url, depth, parent_url) ELSE pgs[u]]

\* PageStateMachine.add_page
add_page(pgs, url, depth, parent_url) ==
  IF url \notin DOMAIN pgs
  THEN [u \in DOMAIN pgs \cup {url} |->
          IF u = url THEN PageState(url, depth, parent_url) ELSE pgs[u]]
  ELSE pgs

\* PageStateMachine.mark_visited: the new pages map.  An empty content is
\* falsy in Python, so no fingerprint is computed for it.
mark_visited_pages(pgs, url, dom_content) ==
  IF url \notin DOMAIN pgs THEN pgs
  ELSE LET v == [pgs[url] EXCEPT !.visited = TRUE] IN
       [pgs EXCEPT ![url] = IF dom_content # ""
                            THEN set_dom_fingerprint(v, dom_content)
                            ELSE v]

\* PageStateMachine.mark_visited: the new visited_urls
mark_visited_urls(pgs, vu, url) ==
  IF url \notin DOMAIN pgs THEN vu ELSE vu \cup {url}

\* PageStateMachine.mark_visited: the new visited_fingerprints
mark_visited_fingerprints(pgs, vf, url, dom_content) ==
  IF url \notin DOMAIN pgs \/ dom_content = "" THEN vf
  ELSE vf \cup {MD5_16(dom_content)}

\* add_to_queue without the test of visited_urls
add_to_queue_AnyUrl(q, url, parent_url) ==
  IF Len(q) < sm_max_pages THEN Append(q, << url, parent_url >>) ELSE q

\* add_to_queue accepting an entry when the queue is at the budget
add_to_queue_AtBudget(q, url, parent_url) ==
  IF url \notin visited_urls /\ Len(q) <= sm_max_pages
  THEN Append(q, << url, parent_url >>)
  ELSE q

\* PageStateMachine.add_to_queue
add_to_queue(q, url, parent_url) ==
  IF url \notin visited_urls /\ Len(q) < sm_max_pages
  THEN Append(q, << url, parent_url >>)
  ELSE q

\* PageStateMachine.is_duplicate_content
is_duplicate_content(dom_content) ==
  MD5_16(dom_content) \in visited_fingerprints

\* should_continue testing the queue only
should_continue_QueueOnly(q) == Len(q) > 0

\* PageStateMachine.should_continue
should_continue(q) ==
  Len(q) > 0 /\ Cardinality(visited_urls) < sm_max_pages

\* get_next_page returning the head of the queue without removing it
NextPage_Peek(q, pgs, pg) ==
  IF ~should_continue(q)
  THEN [found |-> FALSE, queue |-> q, url |-> NULL, depth |-> 0]
  ELSE IF ~pg
  THEN [found |-> FALSE, queue |-> << >>, url |-> NULL, depth |-> 0]
  ELSE [found |-> TRUE, queue |-> q, url |-> Head(q)[1], depth |-> 0]

\* the head of the crawl loop without the test of the depth
NextPage_AnyDepth(q, pgs, pg) ==
  IF ~should_continue(q)
  THEN [found |-> FALSE, queue |-> q, url |-> NULL, depth |-> 0]
  ELSE IF ~pg
  THEN [found |-> FALSE, queue |-> << >>, url |-> NULL, depth |-> 0]
  ELSE [found |-> TRUE, queue |-> Tail(q), url |-> Head(q)[1],
        depth |-> IF Head(q)[1] \in DOMAIN pgs THEN pgs[Head(q)[1]].depth ELSE 0]

\* The head of the crawl loop, from `while should_continue()` to the next
\* suspension: pops entries until one is to be rendered or the loop ends.
\* An entry deeper than max_depth is skipped; when WebExplorer.page is not
\* set (pg false), page.goto raises at once and the handler skips the entry.
RECURSIVE NextPage(_, _, _)
NextPage(q, pgs, pg) ==
  IF ~should_continue(q)
  THEN [found |-> FALSE, queue |-> q, url |-> NULL, depth |-> 0]
  ELSE LET url == Head(q)[1]
           depth == IF url \in DOMAIN pgs THEN pgs[url].depth ELSE 0
       IN IF depth > max_depth \/ ~pg
          THEN NextPage(Tail(q), pgs, pg)
          ELSE [found |-> TRUE, queue |-> Tail(q), url |-> url, depth |-> depth]

\* The link loop of explore(): PageCrawler returns LinkInfo dataclass
\* objects, which have no get method, so `link.get("url")` raises
\* AttributeError on the first link, before add_page or add_to_queue.
\* The result is whether the loop raises.
LinkLoopRaises(links) == Len(links) > 0

\* NavigationPlanner.generate_test_suggestions as explore() calls it:
\* PageCrawler returns FormInfo dataclass objects, which have no get
\* method, so `form.get('action', ...)` raises AttributeError on the first
\* form.  The result is whether the call raises.
SuggestionsRaise(forms) == Len(forms) > 0

\* The body of the link loop of explore() for links that can be read:
\* a link not yet explored is added as a page one level deeper and, if
\* the planner accepts it, queued.
RECURSIVE ProcessLinks(_, _, _, _, _)
ProcessLinks(links, pgs, q, url, depth) ==
  IF links = << >> THEN [pages |-> pgs, queue |-> q]
  ELSE LET link_url == Head(links) IN
       IF link_url \in visited_urls
       THEN ProcessLinks(Tail(links), pgs, q, url, depth)
       ELSE ProcessLinks(Tail(links),
                         add_page(pgs, link_url, depth + 1, url),
                         IF should_explore_link([url |-> UrlText(link_url)])
                         THEN add_to_queue(q, link_url, url) ELSE q,
                         url, depth)

\* a coroutine of explore() that has not run yet
NewTask(sid) == [sid |-> sid, pc |-> "created", url |-> NULL, depth |-> 0]

Event(op, tid, sid, deq) == [op |-> op, task |-> tid, sid |-> sid, deq |-> deq]

\* the program counters of a coroutine that is inside the crawl loop
InLoop == {"goto", "content", "analyze"}

\* the coroutines of session sid that are inside the crawl loop
LoopTasks(sid) == {t \in TIDs : tasks[t].sid = sid /\ tasks[t].pc \in InLoop}

\* history of the control calls:
\*   stop_seen    the coroutines that were in the loop when stop_explore was
\*                called for their session;
\*   pause_seen   the coroutines that were in the loop when pause_explore
\*                was called for their running session, until the next
\*                resume_explore or stop_explore of that session;
\*   stop_expect  per session, NULL until stop_explore is called on it
\*                mid-loop or after it failed, then "error" if it had
\*                failed before that call and "completed" otherwise.
HistInit == [stop_seen |-> {}, pause_seen |-> {}, stop_expect |-> << >>]

Init ==
  /\ hist = HistInit
  /\ browser = FALSE
  /\ page = FALSE
  /\ shown = AboutBlank
  /\ pages = [u \in {} |-> NULL]
  /\ visited_urls = {}
  /\ visited_fingerprints = {}
  /\ exploration_queue = << >>
  /\ sm_max_pages = max_pages
  /\ similarity_threshold = default_similarity_threshold
  /\ args = << >>
  /\ result = << >>
  /\ sessions = << >>
  /\ tasks = << >>
  /\ last = Event("init", 0, 0, FALSE)

\* explore(), `while should_continue()` up to the next suspension or to the
\* end of the function (status completed, end time set), for task tid,
\* starting from queue q, pages pgs, page handle pg, sessions ss, tasks tk;
\* op names the step for the history.
LoopTop(op, tid, q, pgs, pg, ss, tk) ==
  LET r == NextPage(q, pgs, pg)
      sid == tk[tid].sid
  IN /\ exploration_queue' = r.queue
     /\ pages' = pgs
     /\ last' = Event(op, tid, sid, r.found)
     /\ IF r.found
        THEN /\ tasks' = [tk EXCEPT ![tid] = [@ EXCEPT !.pc = "goto", !.url = r.url,
                                                       !.depth = r.depth]]
             /\ sessions' = ss
        ELSE /\ tasks' = [tk EXCEPT ![tid] = [@ EXCEPT !.pc = "done"]]
             /\ sessions' = [ss EXCEPT ![sid] = [@ EXCEPT !.status = "completed",
                                                          !.end_time = TRUE]]

\* explore(), after initialize() has returned: add the start page, queue it
\* and enter the loop.
EnterLoop(op, tid, pg, ss, tk) ==
  LET start_url == ss[tk[tid].sid].start_url
  IN LoopTop(op, tid, add_to_queue(exploration_queue, start_url, ""),
             add_page(pages, start_url, 0, NULL), pg, ss, tk)

\* explore(), from its first line to the first suspension: the status
\* becomes running; initialize() suspends only when no browser exists yet.
ExploreEntry(op, tid, ss, tk) ==
  LET sid == tk[tid].sid
      ss1 == [ss EXCEPT ![sid] = [@ EXCEPT !.status = "running"]]
  IN IF ~browser
     THEN /\ tasks' = [tk EXCEPT ![tid] = [@ EXCEPT !.pc = "init"]]
          /\ sessions' = ss1
          /\ last' = Event(op, tid, sid, FALSE)
          /\ UNCHANGED << pages, exploration_queue >>
     ELSE EnterLoop(op, tid, page, ss1, tk)

\* start_exploration: create_session, then asyncio.create_task(explore);
\* h is the history of the calls up to and including this request
StartWith(start_url, h) ==
  /\ UNCHANGED << sm_max_pages, similarity_threshold, args, result >>
  /\ Len(tasks) < MaxTasks
  /\ sessions' = Append(sessions, ExploreSession(start_url))
  /\ tasks' = Append(tasks, NewTask(Len(sessions) + 1))
  /\ last' = Event("StartExploration", Len(tasks) + 1, Len(sessions) + 1, FALSE)
  /\ hist' = [h EXCEPT !.stop_expect = Append(@, NULL)]
  /\ UNCHANGED << browser, page, shown, pages, visited_urls,
                  visited_fingerprints, exploration_queue >>

\* start_exploration for a request with URL start_url
StartExploration(start_url) == StartWith(start_url, hist)

\* the task created by start_exploration runs explore() to its first
\* suspension
ExploreBegin(t) ==
  /\ UNCHANGED << sm_max_pages, similarity_threshold, args, result >>
  /\ hist' = hist
  /\ tasks[t].pc = "created"
  /\ ExploreEntry("ExploreBegin", t, sessions, tasks)
  /\ UNCHANGED << browser, page, shown, visited_urls, visited_fingerprints >>

\* initialize() completes: browser, context and a fresh page are set, and
\* explore() goes on into the loop
InitOK(t) ==
  /\ UNCHANGED << sm_max_pages, similarity_threshold, args, result >>
  /\ hist' = hist
  /\ tasks[t].pc = "init"
  /\ browser' = TRUE
  /\ page' = TRUE
  /\ shown' = AboutBlank
  /\ EnterLoop("InitOK", t, TRUE, sessions, tasks)
  /\ UNCHANGED << visited_urls, visited_fingerprints >>

\* the outer handler of explore() setting the status only
InitFail_StatusOnly(t, stage) ==
  /\ UNCHANGED << sm_max_pages, similarity_threshold, args, result >>
  /\ hist' = hist
  /\ tasks[t].pc = "init"
  /\ browser' = (browser \/ stage = "context")
  /\ sessions' = [sessions EXCEPT ![tasks[t].sid] = [@ EXCEPT !.status = "error"]]
  /\ tasks' = [tasks EXCEPT ![t] = [@ EXCEPT !.pc = "done"]]
  /\ last' = Event("InitFail", t, tasks[t].sid, FALSE)
  /\ UNCHANGED << page, shown, pages, visited_urls, visited_fingerprints,
                  exploration_queue >>

\* initialize() raises: the outer handler of explore() records the error.
\* At stage "launch" no browser was obtained; at stage "context" the
\* browser is already stored when new_context or new_page raises.
InitFail(t, stage) ==
  /\ UNCHANGED << sm_max_pages, similarity_threshold, args, result >>
  /\ hist' = hist
  /\ tasks[t].pc = "init"
  /\ browser' = (browser \/ stage = "context")
  /\ sessions' = [sessions EXCEPT ![tasks[t].sid] =
                    [@ EXCEPT !.status = "error", !.error = "init failed",
                              !.end_time = TRUE]]
  /\ tasks' = [tasks EXCEPT ![t] = [@ EXCEPT !.pc = "done"]]
  /\ last' = Event("InitFail", t, tasks[t].sid, FALSE)
  /\ UNCHANGED << page, shown, pages, visited_urls, visited_fingerprints,
                  exploration_queue >>

\* page.goto(url) returns, which it does for a well-formed URL only: the
\* browser page shows url.  The task then
\* awaits asyncio.sleep(1) and page.content(); it touches no state between
\* the two, so they are one suspension (pc "content") here.
GotoOK(t) ==
  /\ UNCHANGED << sm_max_pages, similarity_threshold, args, result >>
  /\ hist' = hist
  /\ tasks[t].pc = "goto"
  /\ tasks[t].url \in Documents
  /\ shown' = tasks[t].url
  /\ tasks' = [tasks EXCEPT ![t] = [@ EXCEPT !.pc = "content"]]
  /\ last' = Event("GotoOK", t, tasks[t].sid, FALSE)
  /\ UNCHANGED << browser, page, pages, visited_urls, visited_fingerprints,
                  exploration_queue, sessions >>

\* a failed page.goto reaching the outer handler of explore()
GotoFail_Aborts(t) ==
  /\ UNCHANGED << sm_max_pages, similarity_threshold, args, result >>
  /\ hist' = hist
  /\ tasks[t].pc = "goto"
  /\ shown' \in {shown, tasks[t].url}
  /\ sessions' = [sessions EXCEPT ![tasks[t].sid] =
                    [@ EXCEPT !.status = "error", !.error = "goto failed",
                              !.end_time = TRUE]]
  /\ tasks' = [tasks EXCEPT ![t] = [@ EXCEPT !.pc = "done"]]
  /\ last' = Event("GotoFail", t, tasks[t].sid, FALSE)
  /\ UNCHANGED << browser, page, pages, visited_urls, visited_fingerprints,
                  exploration_queue >>

\* page.goto(url) raises (timeout, navigation error): the inner handler
\* prints the error and continues with the loop.  The page may or may not
\* have loaded the document by then; a string that is no URL loads nothing.
GotoFail(t) ==
  /\ UNCHANGED << sm_max_pages, similarity_threshold, args, result >>
  /\ hist' = hist
  /\ tasks[t].pc = "goto"
  /\ shown' \in {shown} \cup ({tasks[t].url} \cap Documents)
  /\ LoopTop("GotoFail", t, exploration_queue, pages, page, sessions, tasks)
  /\ UNCHANGED << browser, page, visited_urls, visited_fingerprints >>

\* page.content() returns the content of the document the shared browser
\* page shows now; a duplicate content continues with the loop, any other
\* is marked visited and handed to PageCrawler.analyze_page.
ContentOK(t) ==
  /\ UNCHANGED << sm_max_pages, similarity_threshold, args, result >>
  /\ hist' = hist
  /\ tasks[t].pc = "content"
  /\ LET content == PageContent(shown)
         url == tasks[t].url
     IN IF is_duplicate_content(content)
        THEN /\ LoopTop("ContentDuplicate", t, exploration_queue, pages, page,
                        sessions, tasks)
             /\ UNCHANGED << visited_urls, visited_fingerprints >>
        ELSE /\ pages' = mark_visited_pages(pages, url, content)
             /\ visited_urls' = mark_visited_urls(pages, visited_urls, url)
             /\ visited_fingerprints' =
                  mark_visited_fingerprints(pages, visited_fingerprints, url, content)
             /\ sessions' = [sessions EXCEPT ![tasks[t].sid] =
                               [@ EXCEPT !.pages_explored = Cardinality(visited_urls')]]
             /\ tasks' = [tasks EXCEPT ![t] = [@ EXCEPT !.pc = "analyze"]]
             /\ last' = Event("MarkVisited", t, tasks[t].sid, FALSE)
             /\ UNCHANGED exploration_queue
  /\ UNCHANGED << browser, page, shown >>

\* page.content() raises: the inner handler continues with the loop
ContentFail(t) ==
  /\ UNCHANGED << sm_max_pages, similarity_threshold, args, result >>
  /\ hist' = hist
  /\ tasks[t].pc = "content"
  /\ LoopTop("ContentFail", t, exploration_queue, pages, page, sessions, tasks)
  /\ UNCHANGED << browser, page, shown, visited_urls, visited_fingerprints >>

\* analyze_page returns (its own errors are caught inside it), then the
\* rest of the iteration runs: the link loop, the suggestions and the
\* update of the page's record; an exception there continues with the loop.
AnalyzeDone(t) ==
  /\ UNCHANGED << sm_max_pages, similarity_threshold, args, result >>
  /\ hist' = hist
  /\ tasks[t].pc = "analyze"
  /\ LET links == CrawlLinks(PageContent(shown))
         forms == CrawlForms(PageContent(shown))
         url == tasks[t].url
         raises == LinkLoopRaises(links) \/ SuggestionsRaise(forms)
         r == IF LinkLoopRaises(links)
              THEN [pages |-> pages, queue |-> exploration_queue]
              ELSE ProcessLinks(links, pages, exploration_queue, url, tasks[t].depth)
         pgs == IF raises \/ url \notin DOMAIN r.pages
                THEN r.pages
                ELSE [r.pages EXCEPT ![url] = [@ EXCEPT !.links_found = links,
                                                        !.forms_found = forms]]
     IN LoopTop(IF raises THEN "AnalyzeRaise" ELSE "AnalyzeDone",
                t, r.queue, pgs, page, sessions, tasks)
  /\ UNCHANGED << browser, page, shown, visited_urls, visited_fingerprints >>

\* pause_explore
Pause(sid) ==
  /\ UNCHANGED << sm_max_pages, similarity_threshold, args, result >>
  /\ sessions' = [sessions EXCEPT ![sid] = [@ EXCEPT !.status = "paused"]]
  /\ last' = Event("Pause", 0, sid, FALSE)
  /\ hist' = [hist EXCEPT !.pause_seen =
                IF sessions[sid].status = "running" THEN @ \cup LoopTasks(sid) ELSE @]
  /\ UNCHANGED << browser, page, shown, pages, visited_urls,
                  visited_fingerprints, exploration_queue, tasks >>

\* resume_explore: on a paused session, set running and await explore(),
\* which runs in the caller's task up to its first suspension
Resume(sid) ==
  /\ UNCHANGED << sm_max_pages, similarity_threshold, args, result >>
  /\ sessions[sid].status = "paused"
  /\ Len(tasks) < MaxTasks
  /\ ExploreEntry("Resume", Len(tasks) + 1,
                  [sessions EXCEPT ![sid] = [@ EXCEPT !.status = "running"]],
                  Append(tasks, NewTask(sid)))
  /\ hist' = [hist EXCEPT !.pause_seen = @ \ LoopTasks(sid)]
  /\ UNCHANGED << browser, page, shown, visited_urls, visited_fingerprints >>

\* stop_explore
Stop(sid) ==
  /\ UNCHANGED << sm_max_pages, similarity_threshold, args, result >>
  /\ sessions' = [sessions EXCEPT ![sid] = [@ EXCEPT !.status = "completed",
                                                     !.end_time = TRUE]]
  /\ last' = Event("Stop", 0, sid, FALSE)
  /\ hist' = [hist EXCEPT
                !.stop_seen = @ \cup LoopTasks(sid),
                !.pause_seen = @ \ LoopTasks(sid),
                !.stop_expect[sid] =
                   IF @ # NULL THEN @
                   ELSE IF sessions[sid].status = "error" THEN "error"
                   ELSE IF LoopTasks(sid) # {} THEN "completed"
                   ELSE NULL]
  /\ UNCHANGED << browser, page, shown, pages, visited_urls,
                  visited_fingerprints, exploration_queue, tasks >>

Next ==
  \/ \E u \in URLs : StartExploration(u)
  \/ \E t \in TIDs : ExploreBegin(t)
  \/ \E t \in TIDs : InitOK(t)
  \/ \E t \in TIDs, stage \in {"launch", "context"} : InitFail(t, stage)
  \/ \E t \in TIDs : GotoOK(t)
  \/ \E t \in TIDs : GotoFail(t)
  \/ \E t \in TIDs : ContentOK(t)
  \/ \E t \in TIDs : ContentFail(t)
  \/ \E t \in TIDs : AnalyzeDone(t)
  \/ \E s \in SIDs : Pause(s)
  \/ \E s \in SIDs : Resume(s)
  \/ \E s \in SIDs : Stop(s)

Spec == Init /\ [][Next]_vars

\* the step a coroutine of explore() takes when the await it is suspended
\* at returns or raises
TaskStep(t) ==
  /\ t \in TIDs
  /\ \/ ExploreBegin(t)
     \/ InitOK(t)
     \/ \E stage \in {"launch", "context"} : InitFail(t, stage)
     \/ GotoOK(t)
     \/ GotoFail(t)
     \/ ContentOK(t)
     \/ ContentFail(t)
     \/ AnalyzeDone(t)

\* the crawl when every await of explore() returns or raises: the event
\* loop runs a created task, and a coroutine whose await has finished goes on
SpecLive == Spec /\ \A t \in 1..MaxTasks : WF_vars(TaskStep(t))

\* ------------------------------------------------- the page state store
\* The PageStateMachine driven through its methods, the way its callers and
\* test_explorer.py drive it: a caller builds a store by calls of add_page,
\* mark_visited, add_to_queue and get_next_page and asks it
\* is_duplicate_content and should_continue; then one exploration runs on
\* the store so built.

\* the page budget of the store built by calls, and the number of calls
StoreMaxPages == 2
MaxCalls == 3

\* the arguments of the calls
Depths == {0, max_depth + 1}
Parents == {NULL, "/"}
QueueParents == {"", "/"}
Contents == {PageContent(u) : u \in URLs}

\* deque.pop() in place of deque.popleft()
get_next_page_pop(q) ==
  IF Len(q) > 0
  THEN [none |-> FALSE, result |-> q[Len(q)], queue |-> SubSeq(q, 1, Len(q) - 1)]
  ELSE [none |-> TRUE, result |-> << >>, queue |-> q]

\* PageStateMachine.get_next_page: popleft, or None on an empty queue
get_next_page(q) ==
  IF Len(q) > 0
  THEN [none |-> FALSE, result |-> Head(q), queue |-> Tail(q)]
  ELSE [none |-> TRUE, result |-> << >>, queue |-> q]

\* a call of a method of the store, for the history
Call(op) == Event(op, 0, 0, FALSE)

\* history of the calls, besides the history of the control calls:
\*   calls     the number of calls made;
\*   arg       the arguments of the last call;
\*   none      the last call returned None;
\*   res       what the last call returned, when not None (for add_to_queue,
\*             which returns nothing: whether the queue grew);
\*   accepted  the entries by which add_to_queue made the queue grow, in
\*             the order of the calls;
\*   popped    the entries get_next_page returned, in the order of the calls;
\*   marked    the contents with which a page was marked visited.
HistStore ==
  [stop_seen |-> {}, pause_seen |-> {}, stop_expect |-> << >>,
   calls |-> 0, arg |-> << >>, none |-> TRUE, res |-> FALSE,
   accepted |-> << >>, popped |-> << >>, marked |-> {}]

\* PageStateMachine(max_depth, max_pages) in a process with no session yet
InitStore ==
  /\ hist = HistStore
  /\ browser = FALSE
  /\ page = FALSE
  /\ shown = AboutBlank
  /\ pages = [u \in {} |-> NULL]
  /\ visited_urls = {}
  /\ visited_fingerprints = {}
  /\ exploration_queue = << >>
  /\ sm_max_pages = StoreMaxPages
  /\ similarity_threshold = default_similarity_threshold
  /\ args = << >>
  /\ result = << >>
  /\ sessions = << >>
  /\ tasks = << >>
  /\ last = Call("init")

\* a call is made before the exploration starts
CallEnabled == tasks = << >> /\ hist.calls < MaxCalls

\* sm.add_page(url, depth, parent_url), which returns the page's record
Call_add_page(url, depth, parent_url) ==
  /\ CallEnabled
  /\ pages' = add_page(pages, url, depth, parent_url)
  /\ last' = Call("add_page")
  /\ hist' = [hist EXCEPT !.calls = @ + 1, !.arg = << url, depth, parent_url >>,
                          !.none = FALSE, !.res = pages'[url]]
  /\ UNCHANGED << browser, page, shown, visited_urls, visited_fingerprints,
                  exploration_queue, sm_max_pages,
                  similarity_threshold, args, result, sessions, tasks >>

\* sm.mark_visited(url, dom_content)
Call_mark_visited(url, dom_content) ==
  /\ CallEnabled
  /\ pages' = mark_visited_pages(pages, url, dom_content)
  /\ visited_urls' = mark_visited_urls(pages, visited_urls, url)
  /\ visited_fingerprints' =
       mark_visited_fingerprints(pages, visited_fingerprints, url, dom_content)
  /\ last' = Call("mark_visited")
  /\ hist' = [hist EXCEPT !.calls = @ + 1, !.arg = << url, dom_content >>,
                          !.none = TRUE, !.res = FALSE,
                          !.marked = IF url \in DOMAIN pages
                                     THEN @ \cup {dom_content} ELSE @]
  /\ UNCHANGED << browser, page, shown, exploration_queue, sm_max_pages,
                  similarity_threshold, args, result,
                  sessions, tasks >>

\* sm.add_to_queue(url, parent_url)
Call_add_to_queue(url, parent_url) ==
  /\ CallEnabled
  /\ exploration_queue' = add_to_queue(exploration_queue, url, parent_url)
  /\ last' = Call("add_to_queue")
  /\ hist' = [hist EXCEPT
                !.calls = @ + 1, !.arg = << url, parent_url >>, !.none = TRUE,
                !.res = Len(exploration_queue') > Len(exploration_queue),
                !.accepted = IF Len(exploration_queue') > Len(exploration_queue)
                             THEN Append(@, << url, parent_url >>) ELSE @]
  /\ UNCHANGED << browser, page, shown, pages, visited_urls,
                  visited_fingerprints, sm_max_pages,
                  similarity_threshold, args, result, sessions, tasks >>

\* sm.get_next_page()
Call_get_next_page ==
  /\ CallEnabled
  /\ LET r == get_next_page(exploration_queue)
     IN /\ exploration_queue' = r.queue
        /\ hist' = [hist EXCEPT
                      !.calls = @ + 1, !.arg = << >>, !.none = r.none,
                      !.res = r.result,
                      !.popped = IF r.none THEN @ ELSE Append(@, r.result)]
  /\ last' = Call("get_next_page")
  /\ UNCHANGED << browser, page, shown, pages, visited_urls,
                  visited_fingerprints, sm_max_pages,
                  similarity_threshold, args, result, sessions, tasks >>

\* sm.is_duplicate_content(dom_content)
Call_is_duplicate_content(dom_content) ==
  /\ CallEnabled
  /\ last' = Call("is_duplicate_content")
  /\ hist' = [hist EXCEPT !.calls = @ + 1, !.arg = << dom_content >>,
                          !.none = FALSE,
                          !.res = is_duplicate_content(dom_content)]
  /\ UNCHANGED << browser, page, shown, pages, visited_urls,
                  visited_fingerprints, exploration_queue, sm_max_pages,
                  similarity_threshold, args, result,
                  sessions, tasks >>

\* sm.should_continue()
Call_should_continue ==
  /\ CallEnabled
  /\ last' = Call("should_continue")
  /\ hist' = [hist EXCEPT !.calls = @ + 1, !.arg = << >>, !.none = FALSE,
                          !.res = should_continue(exploration_queue)]
  /\ UNCHANGED << browser, page, shown, pages, visited_urls,
                  visited_fingerprints, exploration_queue, sm_max_pages,
                  similarity_threshold, args, result,
                  sessions, tasks >>

\* the one exploration on the store built by the calls
StartOnStore(start_url) == tasks = << >> /\ StartExploration(start_url)

NextStore ==
  \/ \E u \in URLs, d \in Depths, p \in Parents : Call_add_page(u, d, p)
  \/ \E u \in URLs, c \in Contents : Call_mark_visited(u, c)
  \/ \E u \in URLs, p \in QueueParents : Call_add_to_queue(u, p)
  \/ Call_get_next_page
  \/ \E c \in Contents : Call_is_duplicate_content(c)
  \/ Call_should_continue
  \/ \E u \in URLs : StartOnStore(u)
  \/ \E t \in TIDs : ExploreBegin(t)
  \/ \E t \in TIDs : InitOK(t)
  \/ \E t \in TIDs, stage \in {"launch", "context"} : InitFail(t, stage)
  \/ \E t \in TIDs : GotoOK(t)
  \/ \E t \in TIDs : GotoFail(t)
  \/ \E t \in TIDs : ContentOK(t)
  \/ \E t \in TIDs : ContentFail(t)
  \/ \E t \in TIDs : AnalyzeDone(t)

SpecStore == InitStore /\ [][NextStore]_vars

\* ---------------------------------------------------- the control surface
\* One start request of any configuration, the control calls on its
\* session, and the calls made with a session id that is not in the
\* registry.

\* a start URL that is no URL
Malformed == "not a url"

\* StartExploreRequest: url, max_depth and max_pages are a str and two ints
\* of any value
Requests ==
  [url : URLs \cup {Malformed}, max_depth : {-1, 3}, max_pages : {-1, 20}]

\* the methods of WebExplorer that raise ValueError("Session ... not found")
\* for an id that is not in sessions
RaisingCalls ==
  {"get_session_status", "get_exploration_results", "generate_test_cases",
   "generate_coverage_report", "export_test_cases"}

\* the methods of WebExplorer that test `explore_id in self.sessions` and
\* do nothing, returning None, for any other id
SilentCalls == {"pause_explore", "resume_explore", "stop_explore"}

\* history of the requests, besides the history of the control calls:
\*   request   the last start request;
\*   response  how the last call with an unknown id ended: "NotFound" when
\*             it raised the not-found error, "ok" when it returned.
HistControl ==
  [stop_seen |-> {}, pause_seen |-> {}, stop_expect |-> << >>,
   request |-> [url |-> NULL, max_depth |-> 0, max_pages |-> 0],
   response |-> NULL]

InitControl ==
  /\ hist = HistControl
  /\ browser = FALSE
  /\ page = FALSE
  /\ shown = AboutBlank
  /\ pages = [u \in {} |-> NULL]
  /\ visited_urls = {}
  /\ visited_fingerprints = {}
  /\ exploration_queue = << >>
  /\ sm_max_pages = max_pages
  /\ similarity_threshold = default_similarity_threshold
  /\ args = << >>
  /\ result = << >>
  /\ sessions = << >>
  /\ tasks = << >>
  /\ last = Event("init", 0, 0, FALSE)

\* start_exploration(request): the request's max_depth and max_pages are
\* not read, create_session takes its url as it is
StartRequest(req) ==
  /\ tasks = << >>
  /\ StartWith(req.url, [hist EXCEPT !.request = req])

\* a raising method called with an id that is not in sessions
UnknownRaises(op) ==
  /\ last' = Event(op, 0, 0, FALSE)
  /\ hist' = [hist EXCEPT !.response = "NotFound"]
  /\ UNCHANGED << browser, page, shown, pages, visited_urls,
                  visited_fingerprints, exploration_queue, sm_max_pages,
                  similarity_threshold, args, result,
                  sessions, tasks >>

\* pause_explore, resume_explore or stop_explore called with an id that is
\* not in sessions
UnknownSilent(op) ==
  /\ last' = Event(op, 0, 0, FALSE)
  /\ hist' = [hist EXCEPT !.response = "ok"]
  /\ UNCHANGED << browser, page, shown, pages, visited_urls,
                  visited_fingerprints, exploration_queue, sm_max_pages,
                  similarity_threshold, args, result,
                  sessions, tasks >>

NextControl ==
  \/ \E req \in Requests : StartRequest(req)
  \/ \E op \in RaisingCalls : UnknownRaises(op)
  \/ \E op \in SilentCalls : UnknownSilent(op)
  \/ \E t \in TIDs : ExploreBegin(t)
  \/ \E t \in TIDs : InitOK(t)
  \/ \E t \in TIDs, stage \in {"launch", "context"} : InitFail(t, stage)
  \/ \E t \in TIDs : GotoOK(t)
  \/ \E t \in TIDs : GotoFail(t)
  \/ \E t \in TIDs : ContentOK(t)
  \/ \E t \in TIDs : ContentFail(t)
  \/ \E t \in TIDs : AnalyzeDone(t)
  \/ \E s \in SIDs : Pause(s)
  \/ \E s \in SIDs : Resume(s)
  \/ \E s \in SIDs : Stop(s)

SpecControl == InitControl /\ [][NextControl]_vars

\* -------------------------------------------------------- the deduplicator
\* CaseDeduplicator (case_deduplicator.py) as a function of a case list.
\* Line 83 of the file, `groups: List[...] []`, lacks the `=` of the
\* assignment; it is read as `groups = []`.

\* the length of the case lists
MaxCases == 3

\* the cases: a name is a string (a sequence of characters), a step has a
\* selector, tags are a list
CaseNames == {<< "a" >>, << "a", "b" >>}
CaseSteps == {<< >>, << [selector |-> "s"] >>,
              << [selector |-> "s"], [selector |-> "t"] >>}
CaseTags == {<< >>, << "login" >>}
CasePriorities == {"critical", "low"}
CaseDurations == {2, 5}
Cases ==
  [name : CaseNames, steps : CaseSteps, tags : CaseTags,
   priority : CasePriorities, assertions : {<< >>},
   estimated_duration : CaseDurations]

\* the lists of at most n cases
RECURSIVE CaseLists(_)
CaseLists(n) ==
  IF n = 0 THEN {<< >>}
  ELSE CaseLists(n - 1)
         \cup {Append(l, c) : l \in {x \in CaseLists(n - 1) : Len(x) = n - 1},
                              c \in Cases}

Min2(a, b) == IF a <= b THEN a ELSE b
Max2(a, b) == IF a >= b THEN a ELSE b
ToSet(q) == {q[i] : i \in 1..Len(q)}

\* the selectors of a list of steps
Selectors(steps) == [i \in 1..Len(steps) |-> steps[i].selector]

\* "|".join(selectors)
RECURSIVE Join(_)
Join(selectors) ==
  IF Len(selectors) = 0 THEN << >>
  ELSE IF Len(selectors) = 1 THEN << selectors[1] >>
  ELSE Join(Front(selectors)) \o << "|", selectors[Len(selectors)] >>

\* CaseDeduplicator._generate_signature: the md5 of the name and of the
\* md5 of the joined selectors; md5 is taken to have no collision on the
\* strings of the model
generate_signature(case) ==
  << "md5", case.name, "|", << "md5", Join(Selectors(case.steps)) >> >>

\* CaseDeduplicator._levenshtein_distance: dp[m][n] by its recurrence
RECURSIVE levenshtein_distance(_, _)
levenshtein_distance(s1, s2) ==
  IF Len(s1) = 0 THEN Len(s2)
  ELSE IF Len(s2) = 0 THEN Len(s1)
  ELSE LET cost == IF s1[Len(s1)] = s2[Len(s2)] THEN 0 ELSE 1
       IN Min2(Min2(levenshtein_distance(Front(s1), s2) + 1,
                    levenshtein_distance(s1, Front(s2)) + 1),
               levenshtein_distance(Front(s1), Front(s2)) + cost)

\* CaseDeduplicator._longest_common_subsequence: dp[m][n] by its recurrence
RECURSIVE longest_common_subsequence(_, _)
longest_common_subsequence(list1, list2) ==
  IF Len(list1) = 0 \/ Len(list2) = 0 THEN 0
  ELSE IF list1[Len(list1)] = list2[Len(list2)]
  THEN longest_common_subsequence(Front(list1), Front(list2)) + 1
  ELSE Max2(longest_common_subsequence(Front(list1), list2),
            longest_common_subsequence(list1, Front(list2)))

\* CaseDeduplicator._calculate_similarity, as the fraction n / d
calculate_similarity(str1, str2) ==
  IF Len(str1) = 0 /\ Len(str2) = 0 THEN [n |-> 1, d |-> 1]
  ELSE IF Len(str1) = 0 \/ Len(str2) = 0 THEN [n |-> 0, d |-> 1]
  ELSE LET max_len == Max2(Len(str1), Len(str2))
       IN [n |-> max_len - levenshtein_distance(str1, str2), d |-> max_len]

\* CaseDeduplicator._calculate_steps_similarity, as the fraction n / d
calculate_steps_similarity(steps1, steps2) ==
  IF Len(steps1) = 0 /\ Len(steps2) = 0 THEN [n |-> 1, d |-> 1]
  ELSE IF Len(steps1) = 0 \/ Len(steps2) = 0 THEN [n |-> 0, d |-> 1]
  ELSE [n |-> longest_common_subsequence(Selectors(steps1), Selectors(steps2)),
        d |-> Max2(Len(steps1), Len(steps2))]

\* the tag similarity of _are_similar, as the fraction n / d
tag_similarity(tags1, tags2) ==
  IF ToSet(tags1) \cup ToSet(tags2) = {} THEN [n |-> 0, d |-> 1]
  ELSE [n |-> Cardinality(ToSet(tags1) \cap ToSet(tags2)),
        d |-> Cardinality(ToSet(tags1) \cup ToSet(tags2))]

\* name * 0.3 + steps * 0.5 + tags * 0.2 >= threshold, in tenths and
\* cleared of the denominators.  On the fractions of this model the float
\* sum of the code compares to 0.7 as the exact sum does.
Overall(ns, ss, ts, threshold) ==
  3 * ns.n * ss.d * ts.d + 5 * ss.n * ns.d * ts.d + 2 * ts.n * ns.d * ss.d
    >= threshold * ns.d * ss.d * ts.d

\* _are_similar with a threshold of 0.9
are_similar_Strict(case1, case2) ==
  IF Len(case1.steps) = 0 /\ Len(case2.steps) = 0 THEN TRUE
  ELSE Overall(calculate_similarity(Lower(case1.name), Lower(case2.name)),
               calculate_steps_similarity(case1.steps, case2.steps),
               tag_similarity(case1.tags, case2.tags), 9)

\* CaseDeduplicator._are_similar
are_similar(case1, case2) ==
  IF Len(case1.steps) = 0 /\ Len(case2.steps) = 0 THEN TRUE
  ELSE Overall(calculate_similarity(Lower(case1.name), Lower(case2.name)),
               calculate_steps_similarity(case1.steps, case2.steps),
               tag_similarity(case1.tags, case2.tags), similarity_threshold)

\* the groups whose first case is similar to the case
SimilarGroups(case, groups) ==
  {g \in 1..Len(groups) : are_similar(case, groups[g][1])}

\* CaseDeduplicator._group_by_similarity, from case i on: a case joins the
\* first group whose first case it is similar to; a case similar to none
\* opens a group unless its signature was seen, and is dropped otherwise
RECURSIVE GroupFrom(_, _, _, _)
GroupFrom(cases, i, groups, seen_signatures) ==
  IF i > Len(cases) THEN groups
  ELSE LET case == cases[i]
           sim == SimilarGroups(case, groups)
       IN IF sim # {}
          THEN LET g == CHOOSE x \in sim : \A y \in sim : x <= y
               IN GroupFrom(cases, i + 1,
                            [groups EXCEPT ![g] = Append(@, case)],
                            seen_signatures)
          ELSE IF generate_signature(case) \notin seen_signatures
          THEN GroupFrom(cases, i + 1, Append(groups, << case >>),
                         seen_signatures \cup {generate_signature(case)})
          ELSE GroupFrom(cases, i + 1, groups, seen_signatures)

group_by_similarity(cases) == GroupFrom(cases, 1, << >>, {})

\* priority_order.get(priority, 2) of _select_best_case
priority_order(priority) ==
  CASE priority = "critical" -> 0
    [] priority = "high"     -> 1
    [] priority = "medium"   -> 2
    [] priority = "low"      -> 3
    [] OTHER                 -> 2

\* the key of _select_best_case is smaller for c1 than for c2
KeyLess(c1, c2) ==
  LET k1 == << 0 - priority_order(c1.priority), Len(c1.steps), Len(c1.assertions) >>
      k2 == << 0 - priority_order(c2.priority), Len(c2.steps), Len(c2.assertions) >>
  IN \/ k1[1] < k2[1]
     \/ k1[1] = k2[1] /\ k1[2] < k2[2]
     \/ k1[1] = k2[1] /\ k1[2] = k2[2] /\ k1[3] < k2[3]

\* _select_best_case by the number of steps and of assertions alone
select_best_case_MostSteps(cases) ==
  LET less(c1, c2) ==
        \/ Len(c1.steps) < Len(c2.steps)
        \/ Len(c1.steps) = Len(c2.steps) /\ Len(c1.assertions) < Len(c2.assertions)
      best == {i \in 1..Len(cases) :
                 \A j \in 1..Len(cases) : ~less(cases[i], cases[j])}
  IN cases[CHOOSE i \in best : \A j \in best : i <= j]

\* CaseDeduplicator._select_best_case: max() returns the first case of the
\* greatest key
select_best_case(cases) ==
  LET best == {i \in 1..Len(cases) :
                 \A j \in 1..Len(cases) : ~KeyLess(cases[i], cases[j])}
  IN cases[CHOOSE i \in best : \A j \in best : i <= j]

\* deduplicate_cases keeping the cases of a group besides the best one
deduplicate_cases_KeepGroup(cases) ==
  IF Len(cases) = 0 THEN << >>
  ELSE LET groups == group_by_similarity(cases)
           RECURSIVE Collect(_)
           Collect(g) ==
             IF g = 0 THEN << >>
             ELSE IF Len(groups[g]) = 1
             THEN Append(Collect(g - 1), groups[g][1])
             ELSE Append(Collect(g - 1) \o groups[g], select_best_case(groups[g]))
       IN Collect(Len(groups))

\* CaseDeduplicator.deduplicate_cases
deduplicate_cases(cases) ==
  IF Len(cases) = 0 THEN << >>
  ELSE LET groups == group_by_similarity(cases)
       IN [g \in 1..Len(groups) |->
             IF Len(groups[g]) = 1 THEN groups[g][1]
             ELSE select_best_case(groups[g])]

\* the variables of the explorer, which the case pipeline leaves alone
explorer_vars ==
  << browser, page, shown, pages, visited_urls, visited_fingerprints,
     exploration_queue, sm_max_pages,
                  similarity_threshold, sessions, tasks, hist >>

\* a CaseDeduplicator and a case list to give it
InitDedup ==
  /\ hist = HistInit
  /\ browser = FALSE
  /\ page = FALSE
  /\ shown = AboutBlank
  /\ pages = [u \in {} |-> NULL]
  /\ visited_urls = {}
  /\ visited_fingerprints = {}
  /\ exploration_queue = << >>
  /\ sm_max_pages = max_pages
  /\ similarity_threshold = default_similarity_threshold
  /\ sessions = << >>
  /\ tasks = << >>
  /\ last = Call("init")
  /\ args \in CaseLists(MaxCases)
  /\ result = << >>

\* deduplicator.deduplicate_cases(cases)
Deduplicate ==
  /\ last.op = "init"
  /\ result' = deduplicate_cases(args)
  /\ last' = Call("deduplicate_cases")
  /\ UNCHANGED args
  /\ UNCHANGED explorer_vars

\* deduplicator.deduplicate_cases on the list the first call returned
DeduplicateAgain ==
  /\ last.op = "deduplicate_cases"
  /\ args' = result
  /\ result' = deduplicate_cases(result)
  /\ last' = Call("deduplicate_again")
  /\ UNCHANGED explorer_vars

NextDedup == Deduplicate \/ DeduplicateAgain

SpecDedup == InitDedup /\ [][NextDedup]_vars

\* the thresholds a CaseDeduplicator is built with, in tenths, and the
\* length of the case lists given to it
Thresholds == {5, 7, 8, 9, 10}
MaxThresholdCases == 2

\* CaseDeduplicator(similarity_threshold) and a case list to give it
InitThreshold ==
  /\ hist = HistInit
  /\ browser = FALSE
  /\ page = FALSE
  /\ shown = AboutBlank
  /\ pages = [u \in {} |-> NULL]
  /\ visited_urls = {}
  /\ visited_fingerprints = {}
  /\ exploration_queue = << >>
  /\ sm_max_pages = max_pages
  /\ similarity_threshold \in Thresholds
  /\ sessions = << >>
  /\ tasks = << >>
  /\ last = Call("init")
  /\ args \in CaseLists(MaxThresholdCases)
  /\ result = << >>

SpecThreshold == InitThreshold /\ [][NextDedup]_vars

\* ---------------------------------------------------- the coverage reporter
\* CoverageReporter (coverage_reporter.py) as a function of the exploration
\* results and the test cases.  Strings that the reporter looks into are
\* sequences of characters; a number the code computes as a float is the
\* fraction n / d, and `raised` tells that computing it raised
\* ZeroDivisionError.

\* the length of the page list and of the case list given to the reporter
MaxCovPages == 2
MaxCovCases == 2

\* the strings of the cases and pages
Str_root == << "/" >>
Str_other == << "h", "t", "t", "p", ":", "o" >>
Str_dashboard == << "/", "d" >>
Str_user == << "#", "u" >>
Str_btn == << "#", "b" >>
Str_anchor == << "a", "[", "h", "r", "e", "f", "=", "/", "]" >>
Str_text == << "u" >>

\* the page dicts: one as PageState.to_dict exports it (no element, link or
\* form list), one that an analysis found nothing on, one with an element,
\* a link and a form
CovPages ==
  { [url |-> Str_root, elements_found |-> 1, links_count |-> 1, forms_count |-> 1],
    [url |-> Str_root, interactive_elements |-> << >>, links_found |-> << >>,
     forms_found |-> << >>],
    [url |-> Str_other, interactive_elements |-> << [selector |-> Str_btn] >>,
     links_found |-> << [url |-> Str_root] >>,
     forms_found |-> << [form_type |-> "login"] >>] }

\* the case dicts
CovCases ==
  { [steps |-> << >>, tags |-> << "form" >>],
    [name |-> "login",
     steps |-> << [action |-> "navigate", value |-> Str_root],
                  [action |-> "type", selector |-> Str_user, value |-> Str_text],
                  [action |-> "click", selector |-> Str_btn] >>,
     assertions |-> << [type |-> "urlContains", value |-> Str_dashboard] >>,
     tags |-> << "login", "form", "e2e" >>],
    [name |-> "nav",
     steps |-> << [action |-> "navigate", value |-> Str_other],
                  [action |-> "click", selector |-> Str_anchor] >>,
     assertions |-> << [type |-> "visible", value |-> Str_btn] >>,
     tags |-> << "navigation" >>],
    [name |-> "nav2",
     steps |-> << [action |-> "navigate", value |-> Str_dashboard] >>,
     tags |-> << >>] }

\* the lists of at most n members of set S
RECURSIVE ListsOf(_, _)
ListsOf(S, n) ==
  IF n = 0 THEN {<< >>}
  ELSE ListsOf(S, n - 1)
         \cup {Append(l, x) : l \in {y \in ListsOf(S, n - 1) : Len(y) = n - 1},
                              x \in S}

\* a / b of Python
ZeroDivisionError == [raised |-> TRUE, n |-> 0, d |-> 1]
Fraction(a, b) == [raised |-> FALSE, n |-> a, d |-> b]
Divide(a, b) == IF b = 0 THEN ZeroDivisionError ELSE Fraction(a, b)

\* round(x, 2) of a fraction, in hundredths
Round2(x) == (200 * x.n + x.d) \div (2 * x.d)

\* the sum of the lengths of the lists under a key of the pages
RECURSIVE TotalOf(_, _)
TotalOf(page_list, key) ==
  IF Len(page_list) = 0 THEN 0
  ELSE TotalOf(Front(page_list), key)
         + Len(Get(page_list[Len(page_list)], key, << >>))

\* the steps and the assertions of the cases
StepsOf(test_cases) ==
  UNION {ToSet(Get(case, "steps", << >>)) : case \in ToSet(test_cases)}
AssertionsOf(test_cases) ==
  UNION {ToSet(Get(case, "assertions", << >>)) : case \in ToSet(test_cases)}

\* CoverageResult, with percentage = coverage * 100
CoverageResult(metric, covered, total, coverage) ==
  [metric |-> metric, covered |-> covered, total |-> total,
   percentage |-> [coverage EXCEPT !.n = 100 * @]]

\* CoverageReporter._calculate_page_coverage
calculate_page_coverage(page_list, test_cases) ==
  LET total_pages == Len(page_list)
      covered_pages ==
        {Get(step, "value", << >>) : step \in
           {st \in StepsOf(test_cases) :
              /\ Get(st, "value", << >>) # << >>
              /\ \/ StartsWith(Get(st, "value", << >>), << "h", "t", "t", "p" >>)
                 \/ StartsWith(Get(st, "value", << >>), << "/" >>)}}
  IN CoverageResult("page_coverage", Cardinality(covered_pages), total_pages,
       IF total_pages > 0 THEN Divide(Cardinality(covered_pages), total_pages)
       ELSE Fraction(0, 1))

\* the selectors _calculate_element_coverage counts as covered
covered_selectors(test_cases) ==
  {Get(step, "selector", << >>) : step \in
     {st \in StepsOf(test_cases) : Get(st, "selector", << >>) # << >>}}
  \cup
  {Get(a, "value", << >>) : a \in
     {x \in AssertionsOf(test_cases) :
        /\ Get(x, "value", << >>) # << >>
        /\ \/ StartsWith(Get(x, "value", << >>), << "." >>)
           \/ StartsWith(Get(x, "value", << >>), << "#" >>)
           \/ StartsWith(Get(x, "value", << >>), << "[" >>)}}

\* _calculate_element_coverage dividing whatever the total is
calculate_element_coverage_Unguarded(page_list, test_cases) ==
  LET total_elements == TotalOf(page_list, "interactive_elements")
      covered == Cardinality(covered_selectors(test_cases))
  IN CoverageResult("element_coverage", covered, total_elements,
       Divide(covered, total_elements))

\* CoverageReporter._calculate_element_coverage
calculate_element_coverage(page_list, test_cases) ==
  LET total_elements == TotalOf(page_list, "interactive_elements")
      covered == Cardinality(covered_selectors(test_cases))
  IN CoverageResult("element_coverage", covered, total_elements,
       IF total_elements > 0 THEN Divide(covered, total_elements)
       ELSE Fraction(0, 1))

\* CoverageReporter._calculate_link_coverage
calculate_link_coverage(page_list, test_cases) ==
  LET total_links == TotalOf(page_list, "links_found")
      covered_links ==
        {Get(step, "selector", << >>) : step \in
           {st \in StepsOf(test_cases) :
              /\ Get(st, "action", NULL) = "click"
              /\ \/ Contains(Get(st, "selector", << >>),
                             << "h", "r", "e", "f", "=" >>)
                 \/ StartsWith(Get(st, "selector", << >>), << "a" >>)}}
  IN CoverageResult("link_coverage", Cardinality(covered_links), total_links,
       IF total_links > 0 THEN Divide(Cardinality(covered_links), total_links)
       ELSE Fraction(0, 1))

\* CoverageReporter._calculate_form_coverage
calculate_form_coverage(page_list, test_cases) ==
  LET total_forms == TotalOf(page_list, "forms_found")
      covered_forms ==
        {Get(case, "name", "") : case \in
           {c \in ToSet(test_cases) : "form" \in ToSet(Get(c, "tags", << >>))}}
  IN CoverageResult("form_coverage", Cardinality(covered_forms), total_forms,
       IF total_forms > 0 THEN Divide(Cardinality(covered_forms), total_forms)
       ELSE Fraction(0, 1))

\* the keys of expected_features
expected_features ==
  {"login", "register", "search", "navigation", "form", "interaction", "e2e"}

\* CoverageReporter._calculate_feature_coverage
calculate_feature_coverage(test_cases) ==
  LET covered_features ==
        UNION {ToSet(Get(case, "tags", << >>)) \cap expected_features :
                 case \in ToSet(test_cases)}
  IN CoverageResult("feature_coverage", Cardinality(covered_features),
       Cardinality(expected_features),
       Divide(Cardinality(covered_features), Cardinality(expected_features)))

\* sum(r.percentage for r in results)
RECURSIVE SumPercentage(_)
SumPercentage(results) ==
  IF Len(results) = 0 THEN Fraction(0, 1)
  ELSE LET rest == SumPercentage(Front(results))
           x == results[Len(results)].percentage
       IN Fraction(rest.n * x.d + x.n * rest.d, rest.d * x.d)

\* CoverageReporter._get_coverage_status
get_coverage_status(coverage) ==
  IF coverage.n >= 80 * coverage.d THEN "excellent"
  ELSE IF coverage.n >= 60 * coverage.d THEN "good"
  ELSE IF coverage.n >= 40 * coverage.d THEN "moderate"
  ELSE "poor"

\* CoverageReporter._generate_recommendations: the metric and the advice
RECURSIVE RecommendationsOf(_)
RecommendationsOf(results) ==
  IF Len(results) = 0 THEN << >>
  ELSE LET r == results[Len(results)]
           rest == RecommendationsOf(Front(results))
       IN IF r.percentage.n < 50 * r.percentage.d
          THEN Append(rest, << r.metric, "low" >>)
          ELSE IF r.percentage.n < 80 * r.percentage.d
          THEN Append(rest, << r.metric, "improve" >>)
          ELSE rest
generate_recommendations(results) ==
  IF RecommendationsOf(results) = << >> THEN << << "all", "good" >> >>
  ELSE RecommendationsOf(results)

\* CoverageResult.to_dict, without the details; percentage in hundredths
result_to_dict(r) ==
  [metric |-> r.metric, covered |-> r.covered, total |-> r.total,
   percentage |-> Round2(r.percentage)]

\* CoverageReporter._generate_report, without the timestamp; the average in
\* hundredths
generate_report(results) ==
  LET avg_coverage ==
        IF Len(results) > 0
        THEN Fraction(SumPercentage(results).n,
                      SumPercentage(results).d * Len(results))
        ELSE Fraction(0, 1)
  IN [raised |-> FALSE,
      summary |-> [average_coverage |-> Round2(avg_coverage),
                   total_metrics |-> Len(results)],
      metrics |-> [i \in 1..Len(results) |-> result_to_dict(results[i])],
      recommendations |-> generate_recommendations(results),
      status |-> get_coverage_status(avg_coverage)]

\* the five results of calculate_coverage
CoverageResults(exploration_results, test_cases) ==
  LET page_list == Get(exploration_results, "pages", << >>)
  IN << calculate_page_coverage(page_list, test_cases),
        calculate_element_coverage(page_list, test_cases),
        calculate_link_coverage(page_list, test_cases),
        calculate_form_coverage(page_list, test_cases),
        calculate_feature_coverage(test_cases) >>

\* CoverageReporter.calculate_coverage: the report, or the exception of the
\* first metric that raised
calculate_coverage(exploration_results, test_cases) ==
  LET results == CoverageResults(exploration_results, test_cases)
  IN IF \E i \in 1..Len(results) : results[i].percentage.raised
     THEN [raised |-> TRUE, summary |-> NULL, metrics |-> << >>,
           recommendations |-> << >>, status |-> NULL]
     ELSE generate_report(results)

\* a CoverageReporter, exploration results and test cases to give it
InitCoverage ==
  /\ hist = HistInit
  /\ browser = FALSE
  /\ page = FALSE
  /\ shown = AboutBlank
  /\ pages = [u \in {} |-> NULL]
  /\ visited_urls = {}
  /\ visited_fingerprints = {}
  /\ exploration_queue = << >>
  /\ sm_max_pages = max_pages
  /\ similarity_threshold = default_similarity_threshold
  /\ sessions = << >>
  /\ tasks = << >>
  /\ last = Call("init")
  /\ args \in [exploration_results : {[pages |-> l] : l \in ListsOf(CovPages, MaxCovPages)},
               test_cases : ListsOf(CovCases, MaxCovCases)]
  /\ result = << >>

\* reporter.calculate_coverage(exploration_results, test_cases)
CalculateCoverage ==
  /\ last.op = "init"
  /\ result' = calculate_coverage(args.exploration_results, args.test_cases)
  /\ last' = Call("calculate_coverage")
  /\ UNCHANGED args
  /\ UNCHANGED explorer_vars

NextCoverage == CalculateCoverage

SpecCoverage == InitCoverage /\ [][NextCoverage]_vars

\* ------------------------------------------------------ the case generator
\* WebExplorer.generate_test_cases on the pages an exploration left in the
\* PageStateMachine: get_exploration_results, TestCaseGenerator
\* (case_generator.py), the deduplicator and the coverage reporter.  The
\* names of steps and the descriptions of cases are left out, and the
\* names of cases are rendered in English.

\* PageState.to_dict: the links and forms found are exported as counts
to_dict(ps) ==
  [url |-> ps.url, depth |-> ps.depth, parent_url |-> ps.parent_url,
   visited |-> ps.visited, dom_fingerprint |-> ps.dom_fingerprint,
   links_count |-> Len(ps.links_found), forms_count |-> Len(ps.forms_found)]

\* the members of a finite set as a list; the order in which the pages
\* dict lists its values is not kept by the model
RECURSIVE ListOfSet(_)
ListOfSet(S) ==
  IF S = {} THEN << >>
  ELSE LET x == CHOOSE y \in S : TRUE IN << x >> \o ListOfSet(S \ {x})

\* WebExplorer.get_exploration_results, for a session that exists
get_exploration_results(sid) ==
  [session |-> sessions[sid],
   pages |-> [i \in 1..Cardinality(DOMAIN pages) |->
                to_dict(pages[ListOfSet(DOMAIN pages)[i]])]]

\* `word in str.lower()` on the field names and form actions of the site,
\* which hold one of the words looked for only by being it
InStr(word, str) == str = word

\* TestCaseGenerator._detect_form_type
detect_form_type(form) ==
  LET fields == Get(form, "fields", << >>)
  IN IF \E i \in 1..Len(fields) :
          \/ Get(fields[i], "type", NULL) = "password"
          \/ InStr("password", Get(fields[i], "name", ""))
     THEN "login"
     ELSE IF \E i \in 1..Len(fields) : InStr("email", Get(fields[i], "name", ""))
     THEN "register"
     ELSE IF \/ InStr("search", Get(form, "action", ""))
             \/ \E i \in 1..Len(fields) : InStr("search", Get(fields[i], "name", ""))
     THEN "search"
     ELSE "general"

\* TestCaseGenerator._generate_test_value
generate_test_value(field_type) ==
  CASE field_type = "password" -> "Test@123"
    [] field_type = "email"    -> "test@example.com"
    [] field_type = "number"   -> "123"
    [] field_type = "date"     -> "2024-01-01"
    [] field_type = "tel"      -> "1234567890"
    [] OTHER                   -> "test"

\* TestCaseGenerator._generate_form_assertions
generate_form_assertions(form_type, action) ==
  IF form_type = "login"
  THEN << [type |-> "urlContains", value |-> "/dashboard"] >>
  ELSE IF form_type = "search"
  THEN << [type |-> "elementVisible", value |-> ".search-results"] >>
  ELSE << [type |-> "urlContains", value |-> action] >>

\* TestStep and TestCase
TestStep(action, selector, value) ==
  [action |-> action, selector |-> selector, value |-> value]
TestCase(name, priority, steps, assertions, tags, estimated_duration) ==
  [name |-> name, priority |-> priority, steps |-> steps,
   assertions |-> assertions, tags |-> tags,
   estimated_duration |-> estimated_duration]

\* TestCaseGenerator._generate_form_test_case: the case in a list, or the
\* empty list for None
generate_form_test_case(form, pg) ==
  LET fields == Get(form, "fields", << >>)
      action == Get(form, "action", "")
      form_type == detect_form_type(form)
      typing == [i \in 1..Len(fields) |->
                   TestStep("type", Get(fields[i], "selector", ""),
                            generate_test_value(Get(fields[i], "type", "text")))]
      steps == << TestStep("navigate", Get(pg, "url", NULL), Get(pg, "url", NULL)) >>
                 \o typing
                 \o (IF Get(form, "submit_button", NULL) # NULL
                     THEN << TestStep("click", form.submit_button, NULL) >>
                     ELSE << >>)
  IN IF Len(fields) = 0 THEN << >>
     ELSE << TestCase(CASE form_type = "login"    -> "login test"
                        [] form_type = "register" -> "register test"
                        [] form_type = "search"   -> "search test"
                        [] OTHER                  -> "form test",
                      CASE form_type = "login"    -> "critical"
                        [] form_type = "register" -> "high"
                        [] form_type = "search"   -> "high"
                        [] OTHER                  -> "medium",
                      steps, generate_form_assertions(form_type, action),
                      << form_type, "form", "e2e" >>, Len(steps) * 2) >>

\* the concatenation of the lists f[1], ..., f[n]
RECURSIVE Concat(_, _)
Concat(f, n) == IF n = 0 THEN << >> ELSE Concat(f, n - 1) \o f[n]

\* the form cases of generate_cases_from_exploration
FormCases(page_list) ==
  Concat([i \in 1..Len(page_list) |->
            LET forms == Get(page_list[i], "forms_found", << >>)
            IN Concat([j \in 1..Len(forms) |->
                         generate_form_test_case(forms[j], page_list[i])],
                      Len(forms))],
         Len(page_list))

\* TestCaseGenerator._generate_navigation_test_cases
generate_navigation_test_cases(page_list) ==
  Concat([i \in 1..Len(page_list) |->
            LET pg == page_list[i]
                url == Get(pg, "url", "")
                links == Get(pg, "links_found", << >>)
            IN IF Get(pg, "depth", 0) <= 1
               THEN [k \in 1..Min2(Len(links), 3) |->
                       TestCase(<< "navigation test", k >>, "medium",
                                << TestStep("navigate", url, url),
                                   TestStep("click", << "a[href=", links[k], "]" >>,
                                            NULL) >>,
                                << [type |-> "urlContains", value |-> links[k]] >>,
                                << "navigation", "smoke" >>, 5)]
               ELSE << >>],
         Len(page_list))

\* TestCaseGenerator._generate_interaction_test_cases
generate_interaction_test_cases(pg) ==
  LET elements == Get(pg, "interactive_elements", << >>)
      clickable == {k \in 1..Min2(Len(elements), 5) :
                      Get(elements[k], "type", "unknown") \in {"button", "link"}}
  IN Concat([k \in 1..Min2(Len(elements), 5) |->
               IF k \in clickable
               THEN << TestCase(<< "interaction test", k >>, "low",
                                << TestStep("navigate", Get(pg, "url", NULL),
                                            Get(pg, "url", NULL)),
                                   TestStep("click", Get(elements[k], "selector", ""),
                                            NULL) >>,
                                << [type |-> "elementExists",
                                    value |-> Get(elements[k], "selector", "")] >>,
                                << "interaction", "ui" >>, 3) >>
               ELSE << >>],
            Min2(Len(elements), 5))

\* TestCaseGenerator._generate_search_test_cases
generate_search_test_cases(page_list) ==
  Concat([i \in 1..Len(page_list) |->
            LET pg == page_list[i]
                forms == Get(pg, "forms_found", << >>)
            IN Concat([j \in 1..Len(forms) |->
                         IF detect_form_type(forms[j]) = "search"
                         THEN << TestCase("search test", "high",
                                   << TestStep("navigate", Get(pg, "url", NULL),
                                               Get(pg, "url", NULL)),
                                      TestStep("type",
                                               IF Len(Get(forms[j], "fields", << >>)) > 0
                                               THEN Get(forms[j].fields[1], "selector", "")
                                               ELSE "", "test"),
                                      TestStep("click",
                                               Get(forms[j], "submit_button", ""), NULL) >>,
                                   << [type |-> "elementVisible",
                                       value |-> ".search-results"] >>,
                                   << "search", "e2e" >>, 5) >>
                         ELSE << >>],
                      Len(forms))],
         Len(page_list))

\* the cases generate_cases_from_exploration collects before it removes
\* duplicates
GeneratedCases(exploration_results) ==
  LET page_list == Get(exploration_results, "pages", << >>)
  IN FormCases(page_list)
       \o generate_navigation_test_cases(page_list)
       \o Concat([i \in 1..Len(page_list) |->
                    generate_interaction_test_cases(page_list[i])],
                 Len(page_list))
       \o generate_search_test_cases(page_list)

\* TestCaseGenerator._deduplicate_cases: seen_signatures is a list, so
\* `seen_signatures.add` raises AttributeError on the first case
generator_deduplicate_cases(generated_cases) ==
  [raised |-> Len(generated_cases) > 0, cases |-> << >>]

\* TestCaseGenerator.generate_cases_from_exploration
generate_cases_from_exploration(exploration_results) ==
  generator_deduplicate_cases(GeneratedCases(exploration_results))

\* WebExplorer.generate_test_cases, for a session that exists: what it
\* returns, or that it raised
generate_test_cases(sid) ==
  LET exploration_results == get_exploration_results(sid)
      generated == generate_cases_from_exploration(exploration_results)
      deduplicated_cases == deduplicate_cases(generated.cases)
      coverage_report == calculate_coverage(exploration_results, deduplicated_cases)
  IN IF generated.raised \/ coverage_report.raised
     THEN [raised |-> TRUE, test_cases |-> << >>, total_cases |-> 0,
           coverage_report |-> NULL, pages_explored |-> 0]
     ELSE [raised |-> FALSE, test_cases |-> deduplicated_cases,
           total_cases |-> Len(deduplicated_cases),
           coverage_report |-> coverage_report,
           pages_explored |-> exploration_results.session.pages_explored]

\* generate_test_cases(explore_id) for a session of the registry; the
\* cases_generated counter of the session is not part of the session record
GenerateTestCases(sid) ==
  /\ args' = << sid >>
  /\ result' = generate_test_cases(sid)
  /\ last' = Event("GenerateTestCases", 0, sid, FALSE)
  /\ UNCHANGED explorer_vars

\* explorations of the login page, and the generation of cases from them
NextScenario ==
  \/ StartExploration(LoginURL)
  \/ \E t \in TIDs : ExploreBegin(t)
  \/ \E t \in TIDs : InitOK(t)
  \/ \E t \in TIDs, stage \in {"launch", "context"} : InitFail(t, stage)
  \/ \E t \in TIDs : GotoOK(t)
  \/ \E t \in TIDs : GotoFail(t)
  \/ \E t \in TIDs : ContentOK(t)
  \/ \E t \in TIDs : ContentFail(t)
  \/ \E t \in TIDs : AnalyzeDone(t)
  \/ \E s \in SIDs : Pause(s)
  \/ \E s \in SIDs : Resume(s)
  \/ \E s \in SIDs : Stop(s)
  \/ \E s \in SIDs : GenerateTestCases(s)

SpecScenario == Init /\ [][NextScenario]_vars

\* ------------------------------------------------ the choice in a group
\* The choice deduplicate_cases makes in one group of similar cases.

\* the size of the group
MaxGroup == 3

\* the cases of a group: every priority, up to two steps, up to one
\* assertion
GroupCases ==
  [name : {<< "a" >>},
   steps : {<< >>, << [selector |-> "s"] >>,
            << [selector |-> "s"], [selector |-> "t"] >>},
   tags : {<< >>},
   priority : {"critical", "high", "medium", "low"},
   assertions : {<< >>, << [type |-> "urlContains", value |-> "/d"] >>},
   estimated_duration : {2}]

\* a CaseDeduplicator and a group of cases
InitSelect ==
  /\ hist = HistInit
  /\ browser = FALSE
  /\ page = FALSE
  /\ shown = AboutBlank
  /\ pages = [u \in {} |-> NULL]
  /\ visited_urls = {}
  /\ visited_fingerprints = {}
  /\ exploration_queue = << >>
  /\ sm_max_pages = max_pages
  /\ similarity_threshold = default_similarity_threshold
  /\ sessions = << >>
  /\ tasks = << >>
  /\ last = Call("init")
  /\ args \in ListsOf(GroupCases, MaxGroup) \ {<< >>}
  /\ result = << >>

\* the body of the loop over the groups in deduplicate_cases: the case of
\* a group of one, the best case of a larger group
SelectBestCase ==
  /\ last.op = "init"
  /\ result' = IF Len(args) = 1 THEN args[1] ELSE select_best_case(args)
  /\ last' = Call("select_best_case")
  /\ UNCHANGED args
  /\ UNCHANGED explorer_vars

NextSelect == SelectBestCase

SpecSelect == InitSelect /\ [][NextSelect]_vars

\* ------------------------------------------------------------ merge mode
\* CaseDeduplicator.merge_cases as a function of a case list.

\* the length of the case list given to merge_cases
MaxMergeCases == 3

\* the cases given to merge_cases
MergeCases ==
  [name : {<< "a" >>},
   steps : {<< >>, << [selector |-> "s"] >>,
            << [selector |-> "s"], [selector |-> "t"] >>},
   tags : {<< "x" >>, << "y" >>, << "x", "y" >>},
   priority : {"medium"},
   assertions : {<< >>, << [type |-> "urlContains", value |-> "/d"] >>},
   estimated_duration : {2, 5}]

\* the first position from idx on at which selector s stands in selectors,
\* or 0: selectors.index(s, idx) if s in selectors[idx:] else -1
IndexFrom(selectors, s, idx) ==
  LET at == {k \in idx..Len(selectors) : selectors[k] = s}
  IN IF at = {} THEN 0 ELSE CHOOSE k \in at : \A l \in at : k <= l

\* the loop of _is_subsequence from selector i of selectors1 on, with the
\* search in selectors2 starting at idx
RECURSIVE SubsequenceFrom(_, _, _, _)
SubsequenceFrom(selectors1, i, selectors2, idx) ==
  IF i > Len(selectors1) THEN TRUE
  ELSE IF IndexFrom(selectors2, selectors1[i], idx) = 0 THEN FALSE
  ELSE SubsequenceFrom(selectors1, i + 1, selectors2,
                       IndexFrom(selectors2, selectors1[i], idx) + 1)

\* CaseDeduplicator._is_subsequence
is_subsequence(steps1, steps2) ==
  SubsequenceFrom(Selectors(steps1), 1, Selectors(steps2), 1)

\* CaseDeduplicator._should_merge
should_merge(case1, case2) ==
  IF ToSet(Get(case1, "tags", << >>)) \cap ToSet(Get(case2, "tags", << >>)) = {}
  THEN FALSE
  ELSE \/ is_subsequence(Get(case1, "steps", << >>), Get(case2, "steps", << >>))
       \/ is_subsequence(Get(case2, "steps", << >>), Get(case1, "steps", << >>))

\* the members of a finite set as a list, as list(set(...)) gives them in
\* an order of its own
RECURSIVE ListOfTags(_)
ListOfTags(S) ==
  IF S = {} THEN << >>
  ELSE LET x == CHOOSE y \in S : TRUE IN << x >> \o ListOfTags(S \ {x})

\* the assertions of a list whose key, type + str(value), is not in keys
RECURSIVE NewAssertions(_, _)
NewAssertions(assertions, keys) ==
  IF Len(assertions) = 0 THEN << >>
  ELSE LET a == assertions[Len(assertions)]
           rest == NewAssertions(Front(assertions), keys)
       IN IF << a.type, a.value >> \notin keys THEN Append(rest, a) ELSE rest

\* CaseDeduplicator._merge_two_cases
merge_two_cases(case1, case2) ==
  LET base_case == IF Len(Get(case1, "steps", << >>)) >= Len(Get(case2, "steps", << >>))
                   THEN case1 ELSE case2
      other_case == IF base_case = case1 THEN case2 ELSE case1
      base_assertions == {<< a.type, a.value >> :
                            a \in ToSet(Get(base_case, "assertions", << >>))}
  IN [name |-> base_case.name,
      priority |-> base_case.priority,
      steps |-> base_case.steps,
      assertions |-> Get(base_case, "assertions", << >>)
                       \o NewAssertions(Get(other_case, "assertions", << >>),
                                        base_assertions),
      tags |-> ListOfTags(ToSet(Get(base_case, "tags", << >>))
                            \cup ToSet(Get(other_case, "tags", << >>))),
      estimated_duration |-> Get(base_case, "estimated_duration", 0)
                               + Get(other_case, "estimated_duration", 0),
      merged_from |-> << case1.name, case2.name >>]

\* the loop of merge_cases: each case is merged into the first case of
\* merged_cases it should merge with, and appended if there is none
RECURSIVE MergeLoop(_, _)
MergeLoop(unique_cases, merged_cases) ==
  IF Len(unique_cases) = 0 THEN merged_cases
  ELSE LET current == Head(unique_cases)
           fit == {i \in 1..Len(merged_cases) : should_merge(current, merged_cases[i])}
       IN IF fit = {}
          THEN MergeLoop(Tail(unique_cases), Append(merged_cases, current))
          ELSE LET i == CHOOSE x \in fit : \A y \in fit : x <= y
               IN MergeLoop(Tail(unique_cases),
                            [merged_cases EXCEPT ![i] = merge_two_cases(current, @)])

\* CaseDeduplicator.merge_cases
merge_cases(cases) == MergeLoop(deduplicate_cases(cases), << >>)

\* a CaseDeduplicator and a case list to give it
InitMerge ==
  /\ hist = HistInit
  /\ browser = FALSE
  /\ page = FALSE
  /\ shown = AboutBlank
  /\ pages = [u \in {} |-> NULL]
  /\ visited_urls = {}
  /\ visited_fingerprints = {}
  /\ exploration_queue = << >>
  /\ sm_max_pages = max_pages
  /\ similarity_threshold = default_similarity_threshold
  /\ sessions = << >>
  /\ tasks = << >>
  /\ last = Call("init")
  /\ args \in ListsOf(MergeCases, MaxMergeCases)
  /\ result = << >>

\* deduplicator.merge_cases(cases)
MergeCasesCall ==
  /\ last.op = "init"
  /\ result' = merge_cases(args)
  /\ last' = Call("merge_cases")
  /\ UNCHANGED args
  /\ UNCHANGED explorer_vars

NextMerge == MergeCasesCall

SpecMerge == InitMerge /\ [][NextMerge]_vars

\* ------------------------------------------- the generator's own filter
\* TestCaseGenerator._deduplicate_cases on lists of generated cases.

\* the longest list of generated cases
MaxGenerated == 3

\* generated cases: two names, no step or one, two durations
GeneratorCases ==
  {TestCase(name, "medium", steps, << >>, << "form" >>, estimated_duration) :
     name \in {"a", "b"},
     steps \in {<< >>, << TestStep("click", "s", NULL) >>},
     estimated_duration \in {2, 5}}

\* a generator whose generated_cases is any list of cases
InitGenerator ==
  /\ hist = HistInit
  /\ browser = FALSE
  /\ page = FALSE
  /\ shown = AboutBlank
  /\ pages = [u \in {} |-> NULL]
  /\ visited_urls = {}
  /\ visited_fingerprints = {}
  /\ exploration_queue = << >>
  /\ sm_max_pages = max_pages
  /\ similarity_threshold = default_similarity_threshold
  /\ sessions = << >>
  /\ tasks = << >>
  /\ last = Call("init")
  /\ args \in ListsOf(GeneratorCases, MaxGenerated)
  /\ result = [raised |-> FALSE, cases |-> << >>]

\* generator._deduplicate_cases()
GeneratorDeduplicate ==
  /\ last.op = "init"
  /\ result' = generator_deduplicate_cases(args)
  /\ last' = Call("_deduplicate_cases")
  /\ UNCHANGED args
  /\ UNCHANGED explorer_vars

NextGenerator == GeneratorDeduplicate

SpecGenerator == InitGenerator /\ [][NextGenerator]_vars

\* ------------------------------------------------- the exploration path
\* PageStateMachine.get_exploration_path, one iteration of its loop per
\* step, on a store whose records have any parent references.

\* the URLs of the store and the targets asked for
PathURLs == {"/", "/a", "/b"}
PathTargets == PathURLs \cup {"/x"}

\* the stores: each URL has no record, or a record with no parent or with
\* any URL as its parent
PathStores ==
  UNION {[D -> {PageState("/", 0, p) : p \in PathURLs \cup {NULL}}] :
           D \in SUBSET PathURLs}

\* the record of URL u in store f carries u
PathStore(f) == [u \in DOMAIN f |-> [f[u] EXCEPT !.url = u]]

\* the test of the while loop without the visited set
PathLoopCondition_NoVisitedSet(current_url, visited_set) == current_url # NULL

\* the test of the while loop: current_url and current_url not in visited_set
PathLoopCondition(current_url, visited_set) ==
  current_url # NULL /\ current_url \notin visited_set

\* list(reversed(path))
Reversed(path) == [i \in 1..Len(path) |-> path[Len(path) + 1 - i]]

\* a store, and get_exploration_path(target_url) at the start of its loop
InitPath ==
  /\ hist = HistInit
  /\ browser = FALSE
  /\ page = FALSE
  /\ shown = AboutBlank
  /\ pages \in {PathStore(f) : f \in PathStores}
  /\ visited_urls = {}
  /\ visited_fingerprints = {}
  /\ exploration_queue = << >>
  /\ sm_max_pages = max_pages
  /\ similarity_threshold = default_similarity_threshold
  /\ sessions = << >>
  /\ tasks = << >>
  /\ last = Call("init")
  /\ args \in {<< t >> : t \in PathTargets}
  /\ result = [pc |-> "loop", path |-> << >>, current_url |-> args[1],
               visited_set |-> {}]

\* one iteration of the loop; the path is capped at one more than the
\* number of URLs
PathStep ==
  /\ result.pc = "loop"
  /\ PathLoopCondition(result.current_url, result.visited_set)
  /\ Len(result.path) <= Cardinality(PathTargets)
  /\ result' =
       LET u == result.current_url
           follows == u \in DOMAIN pages /\ pages[u].parent_url # NULL
       IN [pc |-> IF follows THEN "loop" ELSE "break",
           path |-> Append(result.path, u),
           current_url |-> IF follows THEN pages[u].parent_url ELSE u,
           visited_set |-> result.visited_set \cup {u}]
  /\ last' = Call("path_step")
  /\ UNCHANGED args
  /\ UNCHANGED explorer_vars

\* the loop is left, by its test or by break: the reversed path is returned
PathReturn ==
  /\ \/ result.pc = "break"
     \/ /\ result.pc = "loop"
        /\ ~PathLoopCondition(result.current_url, result.visited_set)
  /\ result' = [pc |-> "done", path |-> Reversed(result.path),
                current_url |-> result.current_url,
                visited_set |-> result.visited_set]
  /\ last' = Call("get_exploration_path")
  /\ UNCHANGED args
  /\ UNCHANGED explorer_vars

NextPath == PathStep \/ PathReturn

\* the call runs on: nothing suspends the loop
SpecPath == InitPath /\ [][NextPath]_vars /\ WF_vars(NextPath)

\* ------------------------------------------------------- the link filter
\* PageCrawler.crawl_links and NavigationPlanner.should_explore_link on the
\* anchors of one page, and the link loop of explore() on what crawl_links
\* returned.

\* the number of anchors of the page
MaxHrefs == 2

\* the page the anchors stand on
BaseUrl == << "http:", "//site", "/" >>

\* the href values of the anchors
Hrefs ==
  { << "#top" >>,
    << "javascript:", "void(0)" >>,
    << "JavaScript:", "void(0)" >>,
    << "mailto:", "a@b" >>,
    << "tel:", "123" >>,
    << "ftp:", "//site", "/f" >>,
    << "data:", "x" >>,
    << "file:", "/etc" >>,
    << "/page" >>,
    << "/page", "#top" >>,
    << "http:", "//site", "/page" >>,
    << "https:", "//site", "/page" >>,
    << "http:", "//other", "/page" >>,
    << "//site", "/page" >>,
    << "/logout" >>,
    << "http:", "//site", "/Logout" >>,
    << "/doc", ".pdf" >> }

\* a PageCrawler, a planner and the anchors of a page
InitLinks ==
  /\ hist = HistInit
  /\ browser = FALSE
  /\ page = FALSE
  /\ shown = AboutBlank
  /\ pages = [u \in {} |-> NULL]
  /\ visited_urls = {}
  /\ visited_fingerprints = {}
  /\ exploration_queue = << >>
  /\ sm_max_pages = max_pages
  /\ similarity_threshold = default_similarity_threshold
  /\ sessions = << >>
  /\ tasks = << >>
  /\ last = Call("init")
  /\ args \in ListsOf(Hrefs, MaxHrefs)
  /\ result = << >>

\* crawler.crawl_links(content) for a content with these anchors
CrawlLinksCall ==
  /\ last.op = "init"
  /\ result' = crawl_links(BaseUrl, args)
  /\ last' = Call("crawl_links")
  /\ UNCHANGED args
  /\ UNCHANGED explorer_vars

\* the link loop of explore() on the links crawl_links returned: it raises
\* on the first link, and queues the links the planner accepts otherwise
LinkLoop ==
  /\ last.op = "crawl_links"
  /\ exploration_queue' =
       IF LinkLoopRaises(result) THEN exploration_queue
       ELSE ProcessLinks([i \in 1..Len(result) |-> result[i].url], pages,
                         exploration_queue, BaseUrl, 0).queue
  /\ last' = Call("link_loop")
  /\ UNCHANGED << args, result >>
  /\ UNCHANGED << browser, page, shown, pages, visited_urls,
                  visited_fingerprints, sm_max_pages,
                  similarity_threshold, sessions, tasks, hist >>

\* planner.should_explore_link({"url": href}) for an anchor of the page
ShouldExploreLink(i) ==
  /\ last.op = "init"
  /\ args' = << args[i] >>
  /\ result' = should_explore_link([url |-> args[i]])
  /\ last' = Call("should_explore_link")
  /\ UNCHANGED explorer_vars

NextLinks ==
  \/ CrawlLinksCall
  \/ LinkLoop
  \/ \E i \in 1..Len(args) : ShouldExploreLink(i)

SpecLinks == InitLinks /\ [][NextLinks]_vars

\* ------------------------------------------------------------------ claims

\* the steps in which the render or the analysis of one page failed
PageFailures == {"GotoFail", "ContentFail", "AnalyzeRaise"}

\* the edges of the session status the design allows the crawl to take
AllowedEdges ==
  { << "pending", "running" >>, << "running", "paused" >>,
    << "running", "completed" >>, << "running", "error" >>,
    << "paused", "running" >> }

\* C1: in every reachable state the number of URLs marked visited in the
\* page state store is at most max_pages.
C1_VisitedWithinBudget == Cardinality(visited_urls) <= max_pages

\* C2: no URL is visited twice: the crawl loop reaches mark_visited for a
\* URL only when that URL has not been marked visited before.
C2_NoUrlVisitedTwice ==
  [][\A t \in TIDs :
       (last'.op = "MarkVisited" /\ last'.task = t)
         => tasks[t].url \notin visited_urls]_vars

\* C3: every PageState with visited = true has a non-null fingerprint,
\* whatever content was rendered, the empty content included.
C3_VisitedHasFingerprint ==
  \A u \in DOMAIN pages : pages[u].visited => pages[u].dom_fingerprint # NULL

\* C4: once a PageState is visited, its fingerprint never changes.
C4_FingerprintImmutable ==
  [][\A u \in DOMAIN pages :
       pages[u].visited => pages'[u].dom_fingerprint = pages[u].dom_fingerprint]_vars

\* C5: every change of a session's status follows an allowed edge, or is a
\* change to completed made by an explicit stop.
C5_StatusEdges ==
  [][\A s \in SIDs :
       sessions'[s].status # sessions[s].status
         => \/ << sessions[s].status, sessions'[s].status >> \in AllowedEdges
            \/ /\ last'.op = "Stop"
               /\ last'.sid = s
               /\ sessions'[s].status = "completed"]_vars

C7_StopIsFinal ==
  \A s \in SIDs :
    hist.stop_expect[s] # NULL
      => /\ sessions[s].status = hist.stop_expect[s]
         /\ \A u \in visited_urls : u \in DOMAIN pages /\ pages[u].visited

\* C8: after pause_explore on a running session whose loop is running, and
\* until resume or stop is called, the status stays paused, and a step of
\* that loop dequeues nothing and leaves the queue as it is.
C8_PauseHolds ==
  [][\A t \in hist.pause_seen :
       t \in hist'.pause_seen
         => /\ sessions'[tasks[t].sid].status = "paused"
            /\ last'.task = t
                 => ~last'.deq /\ exploration_queue' = exploration_queue]_vars

C10_SetupFailure ==
  [][last'.op = "InitFail"
       => /\ sessions'[last'.sid].status = "error"
          /\ sessions'[last'.sid].error # NULL
          /\ sessions'[last'.sid].end_time
          /\ visited_urls' = visited_urls
          /\ pages' = pages]_vars

\* C10 witness: the setup of a session has just failed.
C10_Witness ==
  /\ last.op = "InitFail"
  /\ sessions[last.sid].status = "error"
  /\ tasks[last.task].pc = "done"

\* the number of entries of queue q for URL u
QueueCount(q, u) == Cardinality({i \in 1..Len(q) : q[i][1] = u})

\* C11: in every reachable state no URL appears twice in the exploration
\* queue: add_to_queue leaves the queue as it is when the URL is queued.
C11_NoUrlQueuedTwice ==
  \A u \in URLs : QueueCount(exploration_queue, u) <= 1

\* C12: no URL already marked visited is ever enqueued: a step after which
\* the queue holds more entries for a URL finds that URL not visited.
C12_VisitedNeverEnqueued ==
  [][\A u \in URLs :
       QueueCount(exploration_queue', u) > QueueCount(exploration_queue, u)
         => u \notin visited_urls]_vars

\* C12 witness: add_to_queue was called for a visited URL while the queue
\* had room, and the queue did not grow.
C12_Witness ==
  /\ last.op = "add_to_queue"
  /\ hist.arg[1] \in visited_urls
  /\ Len(exploration_queue) < sm_max_pages
  /\ ~hist.res

\* C13: the length of the exploration queue never exceeds max_pages.
C13_QueueWithinBudget == Len(exploration_queue) <= sm_max_pages

\* C13 witness: add_to_queue was called for an unvisited URL on a queue of
\* max_pages entries, and the queue did not grow.
C13_Witness ==
  /\ last.op = "add_to_queue"
  /\ hist.arg[1] \notin visited_urls
  /\ Len(exploration_queue) = sm_max_pages
  /\ ~hist.res

\* C14: get_next_page is a first-in-first-out pop: it returns and removes
\* the entry accepted earliest among those still queued; on an empty queue
\* it returns None and leaves the store as it is.
C14_FifoPop ==
  [][last'.op = "get_next_page"
       => IF exploration_queue = << >>
          THEN /\ hist'.none
               /\ UNCHANGED << pages, visited_urls, visited_fingerprints,
                               exploration_queue >>
          ELSE /\ ~hist'.none
               /\ hist'.res = hist.accepted[Len(hist.popped) + 1]
               /\ exploration_queue' =
                    SubSeq(hist.accepted, Len(hist.popped) + 2, Len(hist.accepted))
               /\ UNCHANGED << pages, visited_urls, visited_fingerprints >>]_vars

\* C14 witness: of two different entries queued, get_next_page has returned
\* the one accepted first and left the other.
C14_Witness ==
  /\ last.op = "get_next_page"
  /\ ~hist.none
  /\ Len(hist.accepted) = 2
  /\ hist.res = hist.accepted[1]
  /\ exploration_queue = << hist.accepted[2] >>
  /\ hist.accepted[1] # hist.accepted[2]

C16_AddPageIdempotent ==
  [][last'.op = "add_page"
       => LET url == hist'.arg[1] IN
          IF url \in DOMAIN pages
          THEN pages' = pages /\ hist'.res = pages[url]
          ELSE /\ DOMAIN pages' = DOMAIN pages \cup {url}
               /\ \A u \in DOMAIN pages : pages'[u] = pages[u]
               /\ pages'[url].depth = hist'.arg[2]
               /\ pages'[url].parent_url = hist'.arg[3]
               /\ ~pages'[url].visited
               /\ hist'.res = pages'[url]]_vars

\* C16 witness: add_page was called with another depth and parent for a
\* URL that had a record, and the record is the one first stored.
C16_Witness ==
  /\ last.op = "add_page"
  /\ pages[hist.arg[1]].depth # hist.arg[2]
  /\ pages[hist.arg[1]].parent_url # hist.arg[3]
  /\ hist.res = pages[hist.arg[1]]

\* C17: is_duplicate_content(c) is true if and only if some page already
\* marked visited was marked with content whose fingerprint equals the
\* fingerprint of c; the call does not modify the store.
C17_DuplicateIffMarked ==
  [][last'.op = "is_duplicate_content"
       => /\ hist'.res <=> (\E c \in hist.marked : MD5_16(c) = MD5_16(hist'.arg[1]))
          /\ UNCHANGED << pages, visited_urls, visited_fingerprints,
                          exploration_queue >>]_vars

\* C18: no page whose recorded depth is greater than max_depth is rendered
\* or marked visited by the crawl loop; a dequeued URL of such a page is
\* skipped, and a step that marks no page leaves the visited count alone.
C18_DepthLimit ==
  [][last'.task # 0
       => /\ \A t \in DOMAIN tasks' :
               (tasks'[t].pc \in InLoop /\ tasks'[t].url \in DOMAIN pages')
                 => pages'[tasks'[t].url].depth <= max_depth
          /\ \A u \in DOMAIN pages :
               (pages[u].depth > max_depth /\ u \notin visited_urls)
                 => u \notin visited_urls'
          /\ last'.op # "MarkVisited" => visited_urls' = visited_urls]_vars

\* C18 witness: the crawl loop has dequeued the entry of a page deeper than
\* max_depth and gone on to render another URL; the deep page is not
\* visited and the visited count is as before.
C18_Witness ==
  /\ last.deq
  /\ \E u \in DOMAIN pages :
       /\ pages[u].depth > max_depth
       /\ Len(hist.accepted) > 0
       /\ hist.accepted[1][1] = u
       /\ hist.popped = << >>
       /\ QueueCount(exploration_queue, u) = 0
       /\ u \notin visited_urls
       /\ tasks[last.task].pc = "goto"
       /\ tasks[last.task].url # u
       /\ visited_urls = {}

\* C19: if two distinct URLs render identical content, the second one
\* processed is still marked visited and counted in pages_explored, while
\* nothing is extracted from it.
C19_DuplicateStillVisited ==
  [][\A t \in TIDs :
       ( /\ last'.op = "ContentDuplicate"
         /\ last'.task = t
         /\ tasks[t].url \notin visited_urls
         /\ \E u \in visited_urls :
              /\ u # tasks[t].url
              /\ pages[u].dom_fingerprint = MD5_16(PageContent(shown)) )
         => /\ tasks[t].url \in visited_urls'
            /\ pages'[tasks[t].url].visited
            /\ pages'[tasks[t].url].links_found = << >>
            /\ sessions'[tasks[t].sid].pages_explored
                 = Cardinality(visited_urls')]_vars

\* C21: sessions are isolated: the pages, the visited set and the queue
\* (and with them the remaining page budget) that one session sees are
\* never changed by a step of the crawl of another session.
C21_SessionsIsolated ==
  [][\A s \in SIDs :
       (last'.task # 0 /\ last'.sid # s /\ last'.op # "StartExploration")
         => UNCHANGED << pages, visited_urls, exploration_queue >>]_vars

\* C30: within one session the crawl is strictly sequential: at most one
\* crawl loop is active for a session at any time, also when resume is
\* called after a pause while the render of the earlier loop is in flight.
C30_OneLoopPerSession ==
  \A s \in SIDs : Cardinality(LoopTasks(s)) <= 1

\* the calls of the control surface that take a session id
ControlCalls == RaisingCalls \cup SilentCalls

\* C22: every control call issued with a session id that is not in the
\* registry fails with the not-found error and leaves the registry and all
\* page state as they are.
C22_UnknownIdNotFound ==
  [][(last'.op \in ControlCalls /\ last'.sid = 0)
       => /\ hist'.response = "NotFound"
          /\ UNCHANGED << sessions, tasks, pages, visited_urls,
                          visited_fingerprints, exploration_queue >>]_vars

\* a start request's configuration is valid: a well-formed URL and no
\* negative depth or budget
ValidRequest(req) ==
  req.url \in URLs /\ req.max_depth >= 0 /\ req.max_pages >= 0

\* C23: a start request with an invalid configuration is rejected before a
\* session is created: the registry is unchanged and no crawl is started.
C23_InvalidStartRejected ==
  [][(hist'.request # hist.request \/ last'.op = "StartExploration")
       => (ValidRequest(hist'.request)
             \/ (sessions' = sessions /\ tasks' = tasks))]_vars

\* C24: deduplication is idempotent: deduplicating the list that
\* deduplicate_cases returned returns that list.
C24_DedupIdempotent ==
  last.op = "deduplicate_again" => result = args

SameSignature(c1, c2) ==
  /\ c1.name = c2.name
  /\ Selectors(c1.steps) = Selectors(c2.steps)
  /\ ToSet(c1.tags) = ToSet(c2.tags)

\* the number of entries of list l that are case c
Occurrences(l, c) == Cardinality({k \in 1..Len(l) : l[k] = c})

C27_CoverageWithinBounds ==
  (last.op = "calculate_coverage" /\ ~result.raised)
    => \A i \in 1..Len(result.metrics) :
         /\ 0 <= result.metrics[i].percentage
         /\ result.metrics[i].percentage <= 10000
         /\ result.metrics[i].covered <= result.metrics[i].total

\* C29: computing coverage never raises when a metric's total is zero: the
\* report is produced with its five metrics, and a metric whose total is
\* zero reports percentage 0.
C29_ZeroTotalNoRaise ==
  last.op = "calculate_coverage"
    => /\ ~result.raised
       /\ Len(result.metrics) = 5
       /\ \A i \in 1..Len(result.metrics) :
            result.metrics[i].total = 0 => result.metrics[i].percentage = 0

\* C29 witness: coverage was computed for a page with no interactive
\* element, link or form and a case with steps: the element, link and form
\* totals are zero and the report has a status.
C29_Witness ==
  /\ last.op = "calculate_coverage"
  /\ Len(args.exploration_results.pages) > 0
  /\ Len(args.test_cases) > 0
  /\ ~result.raised
  /\ result.status \in {"excellent", "good", "moderate", "poor"}
  /\ result.metrics[1].total > 0
  /\ result.metrics[2].total = 0 /\ result.metrics[2].covered > 0
  /\ result.metrics[2].percentage = 0
  /\ result.metrics[3].total = 0
  /\ result.metrics[4].total = 0

\* the positions of the login-tagged cases in a list of cases
LoginCases(cases) == {i \in 1..Len(cases) : "login" \in ToSet(cases[i].tags)}

\* C28: after the exploration of a start page with one login form (fields
\* username and password, a submit control) and three links, generating
\* the cases yields exactly one login-tagged case, of priority critical,
\* whose steps are navigate, type, type and a click, with an assertion of
\* type urlContains.
C28_LoginFormCase ==
  (/\ last.op = "GenerateTestCases"
   /\ sessions[last.sid].start_url = LoginURL
   /\ sessions[last.sid].status = "completed"
   /\ LoginURL \in visited_urls)
    => /\ ~result.raised
       /\ Cardinality(LoginCases(result.test_cases)) = 1
       /\ \A i \in LoginCases(result.test_cases) :
            /\ result.test_cases[i].priority = "critical"
            /\ [k \in 1..Len(result.test_cases[i].steps) |->
                  result.test_cases[i].steps[k].action]
                 = << "navigate", "type", "type", "click" >>
            /\ \E a \in ToSet(result.test_cases[i].assertions) :
                 a.type = "urlContains"

\* a link that must not be followed: fragment-only, or of a scheme other
\* than http and https
RejectedHref(href) ==
  \/ StartsWith(href, << "#top" >>)
  \/ urlparse(href).scheme \notin {<< >>, << "http:" >>, << "https:" >>}

\* C31: no link that is fragment-only, uses a script, mail, tel or ftp
\* scheme, or has a scheme other than http or https gets past crawl_links
\* or into the exploration queue; should_explore_link is false for a
\* script link and for a logout link and true for an ordinary http link.
C31_RejectedLinksNotQueued ==
  /\ last.op \in {"crawl_links", "link_loop"}
       => /\ \A k \in 1..Len(result) :
               /\ urlparse(result[k].url).scheme \in {<< "http:" >>, << "https:" >>}
               /\ urlparse(result[k].url).fragment = << >>
               /\ result[k].url \in {normalize_url(BaseUrl, args[i]) :
                                       i \in {j \in 1..Len(args) : ~RejectedHref(args[j])}}
          /\ \A k \in 1..Len(exploration_queue) :
               /\ ~RejectedHref(exploration_queue[k].url)
               /\ exploration_queue[k].url \in {result[j].url : j \in 1..Len(result)}
  /\ last.op = "should_explore_link"
       => /\ StartsWith(Lower(args[1]), << "javascript:" >>) => ~result
          /\ Contains(Lower(args[1]), << "/logout" >>) => ~result
          /\ args[1] = << "http:", "//site", "/page" >> => result

\* C31 witness: the page had a script anchor and an ordinary anchor, and
\* crawl_links returned the ordinary one only.
C31_Witness ==
  /\ last.op = "crawl_links"
  /\ Len(args) = 2
  /\ StartsWith(args[1], << "javascript:" >>)
  /\ args[2] = << "/page" >>
  /\ result = << [url |-> << "http:", "//site", "/page" >>] >>

\* 0.3 * name_similarity + 0.5 * step_similarity + 0.2 * tag_overlap of two
\* cases exceeds the default threshold
ScoreExceeds(c1, c2) ==
  LET ns == calculate_similarity(Lower(c1.name), Lower(c2.name))
      ss == calculate_steps_similarity(c1.steps, c2.steps)
      ts == tag_similarity(c1.tags, c2.tags)
  IN 3 * ns.n * ss.d * ts.d + 5 * ss.n * ns.d * ts.d + 2 * ts.n * ns.d * ss.d
       > similarity_threshold * ns.d * ss.d * ts.d

\* C32: two cases are treated as similar exactly when the weighted score
\* 0.3 * name + 0.5 * steps + 0.2 * tags exceeds the threshold, for every
\* pair of cases, pairs of cases without steps included.
C32_SimilarIffScore ==
  last.op = "deduplicate_cases"
    => \A i, j \in 1..Len(args) :
         are_similar(args[i], args[j]) <=> ScoreExceeds(args[i], args[j])

\* the rank of a priority: critical > high > medium > low
PriorityRank(c) ==
  CASE c.priority = "critical" -> 4
    [] c.priority = "high"     -> 3
    [] c.priority = "medium"   -> 2
    [] c.priority = "low"      -> 1

\* C33: the case retained for a group is a member of the group of the
\* highest priority; among those, one with the most steps; among those,
\* one with the most assertions.
C33_BestOfGroup ==
  last.op = "select_best_case"
    => /\ result \in ToSet(args)
       /\ \A c \in ToSet(args) :
            /\ PriorityRank(result) >= PriorityRank(c)
            /\ PriorityRank(result) = PriorityRank(c)
                 => /\ Len(result.steps) >= Len(c.steps)
                    /\ Len(result.steps) = Len(c.steps)
                         => Len(result.assertions) >= Len(c.assertions)

\* C33 witness: in a group of three the case retained is the last one; it
\* shares the highest priority with the first, has more steps than the
\* first, and the second has more steps still but a lower priority.
C33_Witness ==
  /\ last.op = "select_best_case"
  /\ Len(args) = 3
  /\ result = args[3]
  /\ args[1].priority = "high" /\ args[3].priority = "high"
  /\ args[2].priority = "low"
  /\ Len(args[1].steps) < Len(args[3].steps)
  /\ Len(args[3].steps) < Len(args[2].steps)

\* two cases share a tag and the selector sequence of one is a
\* subsequence of the other's
RECURSIVE IsSubsequence(_, _)
IsSubsequence(l1, l2) ==
  IF Len(l1) = 0 THEN TRUE
  ELSE IF Len(l2) = 0 THEN FALSE
  ELSE IF Head(l1) = Head(l2) THEN IsSubsequence(Tail(l1), Tail(l2))
  ELSE IsSubsequence(l1, Tail(l2))
MergeCondition(c1, c2) ==
  /\ ToSet(c1.tags) \cap ToSet(c2.tags) # {}
  /\ \/ IsSubsequence(Selectors(c1.steps), Selectors(c2.steps))
     \/ IsSubsequence(Selectors(c2.steps), Selectors(c1.steps))

\* C34: in merge mode two cases are merged exactly when they share a tag
\* and the selector sequence of one is a subsequence of the other's: no
\* two cases of the output could still be merged, two cases given are
\* returned as one exactly when they meet the condition, and the merged
\* case has the longer step sequence, the union of the tags, the union of
\* the assertions and the sum of the durations.
C34_MergeExactly ==
  last.op = "merge_cases"
    => /\ \A i, j \in 1..Len(result) :
            i < j => ~MergeCondition(result[i], result[j])
       /\ Len(args) = 2
            => /\ MergeCondition(args[1], args[2]) <=> Len(result) = 1
               /\ Len(result) = 1
                    => /\ Len(result[1].steps)
                            = Max2(Len(args[1].steps), Len(args[2].steps))
                       /\ ToSet(result[1].tags)
                            = ToSet(args[1].tags) \cup ToSet(args[2].tags)
                       /\ ToSet(result[1].assertions)
                            = ToSet(args[1].assertions) \cup ToSet(args[2].assertions)
                       /\ result[1].estimated_duration
                            = args[1].estimated_duration + args[2].estimated_duration

\* get_exploration_path has returned a list without repeated URLs that
\* ends with the target and in which each element is the recorded parent
\* of the next
PathReturned ==
  /\ last.op = "get_exploration_path"
  /\ result.pc = "done"
  /\ Len(result.path) > 0
  /\ result.path[Len(result.path)] = args[1]
  /\ \A i, j \in 1..Len(result.path) : i # j => result.path[i] # result.path[j]
  /\ \A i \in 1..(Len(result.path) - 1) :
       /\ result.path[i + 1] \in DOMAIN pages
       /\ pages[result.path[i + 1]].parent_url = result.path[i]

\* C35: get_exploration_path terminates for every parent-reference graph,
\* one with a cycle included, and returns a list without repeated URLs
\* that ends with the target URL and in which each element is the
\* recorded parent of the next.
C35_PathTerminates == <>PathReturned

\* C35 witness: the three records form a cycle of parents and the path
\* returned holds the three URLs.
C35_Witness ==
  /\ PathReturned
  /\ DOMAIN pages = PathURLs
  /\ \A u \in PathURLs : pages[u].parent_url \in PathURLs \ {u}
  /\ Len(result.path) = 3
  /\ pages[result.path[1]].parent_url = result.path[3]

\* C36: in every state reached by the crawl loop, every PageState with a
\* parent URL has its parent in the store, one level above it, and the
\* start URL of the crawl is the only record at depth 0.
C36_ParentChain ==
  /\ \A u \in DOMAIN pages :
       pages[u].parent_url # NULL
         => /\ pages[u].parent_url \in DOMAIN pages
            /\ pages[u].depth = pages[pages[u].parent_url].depth + 1
  /\ \A t \in 1..Len(tasks) :
       tasks[t].pc \notin {"created", "init", "done"}
         => \A u \in DOMAIN pages :
              pages[u].depth = 0 => u = sessions[tasks[t].sid].start_url

\* the cases of a list that are the first of their (name, number of
\* steps) signature, in the order of the list
FirstOfSignature(cases) ==
  LET first == {i \in 1..Len(cases) :
                  \A j \in 1..(i - 1) :
                    \/ cases[j].name # cases[i].name
                    \/ Len(cases[j].steps) # Len(cases[i].steps)}
      Pick[n \in 0..Len(cases)] ==
        IF n = 0 THEN << >>
        ELSE IF n \in first THEN Append(Pick[n - 1], cases[n])
        ELSE Pick[n - 1]
  IN Pick[Len(cases)]

\* C37: after the generator's immediate deduplication no two cases of the
\* list share the name and the number of steps, and the case kept for a
\* signature is the first one with it, in the original order.
C37_FirstOfSignatureKept ==
  last.op = "_deduplicate_cases"
    => /\ ~result.raised
       /\ result.cases = FirstOfSignature(args)

\* the session s exists and its status is completed or error
Finished(s) ==
  /\ s \in SIDs
  /\ sessions[s].status \in {"completed", "error"}

\* C38: provided every render call returns, with a result or an error, the
\* crawl loop terminates: every session eventually reaches the status
\* completed or error.
C38_CrawlTerminates ==
  \A s \in 1..MaxTasks :
    (last.op = "StartExploration" /\ last.sid = s) ~> Finished(s)

\* C38 witness: a crawl that rendered a page has left the loop and set the
\* status of its session to completed.
C38_Witness ==
  /\ last.task # 0
  /\ last.op \notin {"StartExploration", "Resume", "InitFail"}
  /\ tasks[last.task].pc = "done"
  /\ Finished(last.sid)
  /\ sessions[last.sid].pages_explored > 0
  /\ sessions[last.sid].start_url \in visited_urls

\* the number of cases in the groups
RECURSIVE Grouped(_, _)
Grouped(groups, g) ==
  IF g = 0 THEN 0 ELSE Len(groups[g]) + Grouped(groups, g - 1)

\* C40: for every similarity threshold and every case list, deduplication
\* loses no case without a representative: every input case is placed in
\* exactly one group, so it is retained itself or is similar to the first
\* member of a group whose retained case is in the output, and every
\* output case is an element of the input.
C40_NoCaseLost ==
  last.op = "deduplicate_cases"
    => LET groups == group_by_similarity(args)
       IN /\ Grouped(groups, Len(groups)) = Len(args)
          /\ \A i \in 1..Len(args) :
               \/ args[i] \in ToSet(result)
               \/ \E g \in 1..Len(groups) :
                    /\ are_similar(args[i], groups[g][1])
                    /\ ToSet(groups[g]) \cap ToSet(result) # {}
          /\ ToSet(result) \subseteq ToSet(args)

====
